---- MODULE Spec2Model ----
(***************************************************************************)
(* Aggregation and caching pipeline of the World Air Quality dashboard:    *)
(* the country-code resolver, the world reference table, the memoized      *)
(* base loader / filtered view / country aggregate / choropleth merge of   *)
(* main.py, and the region and years-lost helpers of mapping_region.py.    *)
(*                                                                         *)
(* Conventions.  A Python str that the code inspects (country codes) is a  *)
(* sequence of one-character strings, so that str.lower() and the sort     *)
(* order of groupby are computed character by character.  Opaque labels    *)
(* (pollutant names, units, display names, region labels) are TLA+         *)
(* strings.  A mean is an exact fraction <<num, den>> in lowest terms;     *)
(* NaN is the fraction <<0, 0>>.  Concentrations given to                  *)
(* calculate_years_lost are in tenths of ug/m3 and its result is in        *)
(* hundredths of a year.                                                   *)
(***************************************************************************)
EXTENDS Integers, Sequences, FiniteSets, TLC

\* ------------------------------------------------------------------ bounds
MaxRows == 4             \* rows of the cleaned data file
MaxConc == 200           \* largest concentration tried, in tenths of ug/m3
MaxDashRows == 7         \* rows of the data file behind the dashboard callbacks
MaxReads == 2            \* reads of the data file by the graph callbacks
MaxSteps == 4            \* steps of the clock
MaxRaw == 3              \* features of the raw file to clean
MaxViews == 2            \* views cached while the buttons are clicked
MaxClicks == 8           \* clicks on one navigation item

\* ------------------------------------------------------- Python str values
UpperCase == <<"A","B","C","D","E","F","G","H","I","J","K","L","M",
               "N","O","P","Q","R","S","T","U","V","W","X","Y","Z">>
LowerCase == <<"a","b","c","d","e","f","g","h","i","j","k","l","m",
               "n","o","p","q","r","s","t","u","v","w","x","y","z">>

Letters == {UpperCase[i] : i \in 1..26} \cup {LowerCase[i] : i \in 1..26}

\* None where the code expects a str: no str equals it
None == <<"None">>

\* a missing (null / NaN) cell of an opaque text column
Missing == "NaN"

\* NaN of a float column
NaN == <<0, 0>>

IsStr(s) == \A i \in DOMAIN s : s[i] \in Letters

IsUpper(c) == \E i \in 1..26 : UpperCase[i] = c

AlphaIndex(c) ==
    IF IsUpper(c) THEN CHOOSE i \in 1..26 : UpperCase[i] = c
                  ELSE CHOOSE i \in 1..26 : LowerCase[i] = c

\* code point of a letter
Ord(c) == IF IsUpper(c) THEN 64 + AlphaIndex(c) ELSE 96 + AlphaIndex(c)

\* str.lower()
Lower(s) == [i \in DOMAIN s |-> IF IsUpper(s[i]) THEN LowerCase[AlphaIndex(s[i])] ELSE s[i]]

\* a < b for two str (code point order, as sorted() and groupby use)
StrLess(a, b) ==
    \/ \E i \in 1..Len(a) :
          /\ i <= Len(b)
          /\ \A j \in 1..(i - 1) : a[j] = b[j]
          /\ Ord(a[i]) < Ord(b[i])
    \/ /\ Len(a) < Len(b)
       /\ \A j \in 1..Len(a) : a[j] = b[j]

\* ---------------------------------------------------------------- helpers
RECURSIVE GCD(_, _)
GCD(a, b) == IF b = 0 THEN a ELSE GCD(b, a % b)

\* the fraction n/d in lowest terms (d > 0)
Frac(n, d) == LET g == GCD(n, d) IN <<n \div g, d \div g>>

IsNaN(q) == q[2] = 0

FracLeq(p, q) == p[1] * q[2] <= q[1] * p[2]

RECURSIVE SumValues(_)
SumValues(rows) ==
    IF rows = <<>> THEN 0
    ELSE Head(rows).measurements_value + SumValues(Tail(rows))

\* the elements of a set of str in ascending order
RECURSIVE SortedStrs(_)
SortedStrs(S) ==
    IF S = {} THEN <<>>
    ELSE LET m == CHOOSE x \in S : \A y \in S \ {x} : StrLess(x, y)
         IN  <<m>> \o SortedStrs(S \ {m})

\* the rows of a set of records in ascending idx order
RECURSIVE TableOf(_)
TableOf(S) ==
    IF S = {} THEN <<>>
    ELSE LET m == CHOOSE x \in S : \A y \in S : x.idx <= y.idx
         IN  <<m>> \o TableOf(S \ {m})

Range(s) == {s[i] : i \in DOMAIN s}

\* ------------------------------------------------ pycountry.countries
\* the entries of the ISO 3166-1 catalogue the model carries
Countries ==
    << [alpha_2 |-> <<"D","E">>, alpha_3 |-> <<"D","E","U">>, name |-> "Germany"],
       [alpha_2 |-> <<"F","R">>, alpha_3 |-> <<"F","R","A">>, name |-> "France"],
       [alpha_2 |-> <<"I","N">>, alpha_3 |-> <<"I","N","D">>, name |-> "India"],
       [alpha_2 |-> <<"U","S">>, alpha_3 |-> <<"U","S","A">>, name |-> "United States"] >>

\* pycountry.countries.get(alpha_2=value): the catalogue index is keyed by the
\* lower-cased field and get() lower-cases its argument; a value that is not
\* a str raises LookupError, a str without entry gives the default None.
\* The result is the set of entries found (empty for None or an exception).
countries_get(value) ==
    IF ~IsStr(value) THEN {}
    ELSE {Countries[i] : i \in {j \in DOMAIN Countries :
                                   Lower(Countries[j].alpha_2) = Lower(value)}}

\* body of iso2_to_iso3: .alpha_3 of the entry; any exception gives None
iso2_to_iso3_body(iso2_code) ==
    LET found == countries_get(iso2_code)
    IN  IF found = {} THEN None ELSE (CHOOSE c \in found : TRUE).alpha_3

\* body of get_all_countries_df
get_all_countries_df_body ==
    [i \in DOMAIN Countries |->
        [country_iso3 |-> Countries[i].alpha_3, country_name |-> Countries[i].name]]

\* ------------------------------------------------ mapping_region.py
REGION_PAIRS ==
    <<
       <<<<"I","N">>, "Asie du Sud">>, <<<<"P","K">>, "Asie du Sud">>,
       <<<<"B","D">>, "Asie du Sud">>, <<<<"N","P">>, "Asie du Sud">>,
       <<<<"L","K">>, "Asie du Sud">>, <<<<"A","F">>, "Asie du Sud">>,
       <<<<"B","T">>, "Asie du Sud">>, <<<<"M","V">>, "Asie du Sud">>,
       <<<<"C","N">>, "Asie de l'Est">>, <<<<"J","P">>, "Asie de l'Est">>,
       <<<<"K","R">>, "Asie de l'Est">>, <<<<"K","P">>, "Asie de l'Est">>,
       <<<<"T","W">>, "Asie de l'Est">>, <<<<"M","N">>, "Asie de l'Est">>,
       <<<<"H","K">>, "Asie de l'Est">>, <<<<"M","O">>, "Asie de l'Est">>,
       <<<<"T","H">>, "Asie du Sud-Est">>, <<<<"V","N">>, "Asie du Sud-Est">>,
       <<<<"I","D">>, "Asie du Sud-Est">>, <<<<"P","H">>, "Asie du Sud-Est">>,
       <<<<"M","Y">>, "Asie du Sud-Est">>, <<<<"S","G">>, "Asie du Sud-Est">>,
       <<<<"M","M">>, "Asie du Sud-Est">>, <<<<"K","H">>, "Asie du Sud-Est">>,
       <<<<"L","A">>, "Asie du Sud-Est">>, <<<<"B","N">>, "Asie du Sud-Est">>,
       <<<<"T","L">>, "Asie du Sud-Est">>, <<<<"S","A">>, "Moyen-Orient">>,
       <<<<"A","E">>, "Moyen-Orient">>, <<<<"I","R">>, "Moyen-Orient">>,
       <<<<"I","Q">>, "Moyen-Orient">>, <<<<"I","L">>, "Moyen-Orient">>,
       <<<<"J","O">>, "Moyen-Orient">>, <<<<"L","B">>, "Moyen-Orient">>,
       <<<<"S","Y">>, "Moyen-Orient">>, <<<<"Y","E">>, "Moyen-Orient">>,
       <<<<"O","M">>, "Moyen-Orient">>, <<<<"K","W">>, "Moyen-Orient">>,
       <<<<"Q","A">>, "Moyen-Orient">>, <<<<"B","H">>, "Moyen-Orient">>,
       <<<<"P","S">>, "Moyen-Orient">>, <<<<"T","R">>, "Moyen-Orient">>,
       <<<<"F","R">>, "Europe occidentale">>, <<<<"D","E">>, "Europe occidentale">>,
       <<<<"G","B">>, "Europe occidentale">>, <<<<"I","T">>, "Europe occidentale">>,
       <<<<"E","S">>, "Europe occidentale">>, <<<<"P","T">>, "Europe occidentale">>,
       <<<<"N","L">>, "Europe occidentale">>, <<<<"B","E">>, "Europe occidentale">>,
       <<<<"C","H">>, "Europe occidentale">>, <<<<"A","T">>, "Europe occidentale">>,
       <<<<"I","E">>, "Europe occidentale">>, <<<<"L","U">>, "Europe occidentale">>,
       <<<<"M","C">>, "Europe occidentale">>, <<<<"L","I">>, "Europe occidentale">>,
       <<<<"A","D">>, "Europe occidentale">>, <<<<"S","E">>, "Europe du Nord">>,
       <<<<"N","O">>, "Europe du Nord">>, <<<<"D","K">>, "Europe du Nord">>,
       <<<<"F","I">>, "Europe du Nord">>, <<<<"I","S">>, "Europe du Nord">>,
       <<<<"E","E">>, "Europe du Nord">>, <<<<"L","V">>, "Europe du Nord">>,
       <<<<"L","T">>, "Europe du Nord">>, <<<<"P","L">>, "Europe de l'Est">>,
       <<<<"C","Z">>, "Europe de l'Est">>, <<<<"S","K">>, "Europe de l'Est">>,
       <<<<"H","U">>, "Europe de l'Est">>, <<<<"R","O">>, "Europe de l'Est">>,
       <<<<"B","G">>, "Europe de l'Est">>, <<<<"U","A">>, "Europe de l'Est">>,
       <<<<"B","Y">>, "Europe de l'Est">>, <<<<"M","D">>, "Europe de l'Est">>,
       <<<<"R","U">>, "Europe de l'Est">>, <<<<"G","R">>, "Europe du Sud">>,
       <<<<"H","R">>, "Europe du Sud">>, <<<<"S","I">>, "Europe du Sud">>,
       <<<<"B","A">>, "Europe du Sud">>, <<<<"R","S">>, "Europe du Sud">>,
       <<<<"M","E">>, "Europe du Sud">>, <<<<"M","K">>, "Europe du Sud">>,
       <<<<"A","L">>, "Europe du Sud">>, <<<<"X","K">>, "Europe du Sud">>,
       <<<<"C","Y">>, "Europe du Sud">>, <<<<"M","T">>, "Europe du Sud">>,
       <<<<"U","S">>, "Amérique du Nord">>, <<<<"C","A">>, "Amérique du Nord">>,
       <<<<"M","X">>, "Amérique du Nord">>, <<<<"G","T">>, "Amérique centrale">>,
       <<<<"H","N">>, "Amérique centrale">>, <<<<"S","V">>, "Amérique centrale">>,
       <<<<"N","I">>, "Amérique centrale">>, <<<<"C","R">>, "Amérique centrale">>,
       <<<<"P","A">>, "Amérique centrale">>, <<<<"B","Z">>, "Amérique centrale">>,
       <<<<"C","U">>, "Amérique centrale">>, <<<<"D","O">>, "Amérique centrale">>,
       <<<<"H","T">>, "Amérique centrale">>, <<<<"J","M">>, "Amérique centrale">>,
       <<<<"T","T">>, "Amérique centrale">>, <<<<"B","B">>, "Amérique centrale">>,
       <<<<"B","S">>, "Amérique centrale">>, <<<<"B","R">>, "Amérique du Sud">>,
       <<<<"A","R">>, "Amérique du Sud">>, <<<<"C","L">>, "Amérique du Sud">>,
       <<<<"C","O">>, "Amérique du Sud">>, <<<<"P","E">>, "Amérique du Sud">>,
       <<<<"V","E">>, "Amérique du Sud">>, <<<<"E","C">>, "Amérique du Sud">>,
       <<<<"B","O">>, "Amérique du Sud">>, <<<<"P","Y">>, "Amérique du Sud">>,
       <<<<"U","Y">>, "Amérique du Sud">>, <<<<"G","Y">>, "Amérique du Sud">>,
       <<<<"S","R">>, "Amérique du Sud">>, <<<<"G","F">>, "Amérique du Sud">>,
       <<<<"E","G">>, "Afrique du Nord">>, <<<<"D","Z">>, "Afrique du Nord">>,
       <<<<"M","A">>, "Afrique du Nord">>, <<<<"T","N">>, "Afrique du Nord">>,
       <<<<"L","Y">>, "Afrique du Nord">>, <<<<"S","D">>, "Afrique du Nord">>,
       <<<<"N","G">>, "Afrique subsaharienne">>, <<<<"G","H">>, "Afrique subsaharienne">>,
       <<<<"C","I">>, "Afrique subsaharienne">>, <<<<"S","N">>, "Afrique subsaharienne">>,
       <<<<"M","L">>, "Afrique subsaharienne">>, <<<<"B","F">>, "Afrique subsaharienne">>,
       <<<<"N","E">>, "Afrique subsaharienne">>, <<<<"G","N">>, "Afrique subsaharienne">>,
       <<<<"S","L">>, "Afrique subsaharienne">>, <<<<"L","R">>, "Afrique subsaharienne">>,
       <<<<"T","G">>, "Afrique subsaharienne">>, <<<<"B","J">>, "Afrique subsaharienne">>,
       <<<<"K","E">>, "Afrique subsaharienne">>, <<<<"T","Z">>, "Afrique subsaharienne">>,
       <<<<"U","G">>, "Afrique subsaharienne">>, <<<<"E","T">>, "Afrique subsaharienne">>,
       <<<<"S","O">>, "Afrique subsaharienne">>, <<<<"R","W">>, "Afrique subsaharienne">>,
       <<<<"B","I">>, "Afrique subsaharienne">>, <<<<"D","J">>, "Afrique subsaharienne">>,
       <<<<"E","R">>, "Afrique subsaharienne">>, <<<<"S","S">>, "Afrique subsaharienne">>,
       <<<<"Z","A">>, "Afrique subsaharienne">>, <<<<"Z","W">>, "Afrique subsaharienne">>,
       <<<<"Z","M">>, "Afrique subsaharienne">>, <<<<"M","W">>, "Afrique subsaharienne">>,
       <<<<"M","Z">>, "Afrique subsaharienne">>, <<<<"B","W">>, "Afrique subsaharienne">>,
       <<<<"N","A">>, "Afrique subsaharienne">>, <<<<"L","S">>, "Afrique subsaharienne">>,
       <<<<"S","Z">>, "Afrique subsaharienne">>, <<<<"A","O">>, "Afrique subsaharienne">>,
       <<<<"C","D">>, "Afrique subsaharienne">>, <<<<"C","G">>, "Afrique subsaharienne">>,
       <<<<"C","M">>, "Afrique subsaharienne">>, <<<<"C","F">>, "Afrique subsaharienne">>,
       <<<<"T","D">>, "Afrique subsaharienne">>, <<<<"G","A">>, "Afrique subsaharienne">>,
       <<<<"G","Q">>, "Afrique subsaharienne">>, <<<<"A","U">>, "Océanie">>,
       <<<<"N","Z">>, "Océanie">>, <<<<"P","G">>, "Océanie">>,
       <<<<"F","J">>, "Océanie">>, <<<<"S","B">>, "Océanie">>,
       <<<<"V","U">>, "Océanie">>, <<<<"N","C">>, "Océanie">>,
       <<<<"P","F">>, "Océanie">>, <<<<"W","S">>, "Océanie">>,
       <<<<"T","O">>, "Océanie">>, <<<<"K","I">>, "Océanie">>
    >>

REGION_MAPPING ==
    [k \in {REGION_PAIRS[i][1] : i \in DOMAIN REGION_PAIRS} |->
        (CHOOSE p \in Range(REGION_PAIRS) : p[1] = k)[2]]

\* dict.get(country_code) without the default
get_region_NoDefault(country_code) ==
    IF country_code \in DOMAIN REGION_MAPPING THEN REGION_MAPPING[country_code]
    ELSE Missing

\* dict.get(country_code, 'Autre')
get_region(country_code) ==
    IF country_code \in DOMAIN REGION_MAPPING THEN REGION_MAPPING[country_code]
    ELSE "Autre"

\* the default seuil=5 ug/m3, in tenths
SeuilDefaut == 50

\* 0.1 in place of 0.098
AnneePerdue_Tenth(exces) == exces * 100

\* exces * 0.098 in units of 1/10000 year, for exces in tenths of ug/m3
AnneePerdue(exces) == exces * 98

\* truncation in place of rounding
Round2_Truncated(x) == {x \div 100}

\* round(x, 2) of x given in 1/10000: the hundredths it can return.  The
\* product is a binary float, so on an exact decimal tie (x ends in 50) the
\* stored float lies on either side and both neighbours occur (7.5 gives
\* 0.24, 17.5 gives 1.23).
Round2(x) ==
    LET q == x \div 100
        r == x % 100
    IN  IF r < 50 THEN {q} ELSE IF r > 50 THEN {q + 1} ELSE {q, q + 1}

\* the values calculate_years_lost(pm25_concentration, seuil) can return
calculate_years_lost(pm25_concentration, seuil) ==
    IF pm25_concentration <= seuil THEN {0}
    ELSE Round2(AnneePerdue(pm25_concentration - seuil))

\* ------------------------------------------------ the cleaned data file
\* thresholds of get_pollution_level
PollutionThresholds ==
    ("PM2.5" :> <<15, 35, 55>>)   @@ ("PM10" :> <<50, 100, 150>>) @@
    ("NO2"   :> <<40, 100, 200>>) @@ ("SO2"  :> <<20, 80, 250>>)  @@
    ("O3"    :> <<100, 160, 240>>) @@ ("CO"  :> <<4000, 10000, 20000>>)

get_pollution_level(pollutant, value) ==
    IF pollutant \notin DOMAIN PollutionThresholds THEN "Inconnu"
    ELSE LET levels == PollutionThresholds[pollutant]
         IN  IF value <= levels[1] THEN "Bon"
             ELSE IF value <= levels[2] THEN "Moyen"
             ELSE IF value <= levels[3] THEN "Mauvais"
             ELSE "Très mauvais"

\* one feature of cleaneddata.geojson; idx is its position in the file
Feature(idx, country, name, parameter, value, unit, year) ==
    [ idx |-> idx, country |-> country, country_name_en |-> name,
      measurements_parameter |-> parameter, measurements_value |-> value,
      measurements_unit |-> unit,
      measurements_lastupdated |-> <<year, idx>>,      \* <<year, day of year>>
      geometry |-> <<idx, 40 + idx>> ]                  \* <<lon, lat>>

FR == <<"F","R">>
US == <<"U","S">>
ZZ == <<"Z","Z">>
FRA == <<"F","R","A">>
USA == <<"U","S","A">>

\* the features a data file is drawn from
Features ==
    { Feature(1, FR, "France", "PM2.5", 10, "µg/m³", 2020),
      Feature(2, FR, "France", "PM2.5", 20, "µg/m³", 2020),
      Feature(3, FR, "France", "PM2.5", 30, "µg/m³", 2020),
      Feature(4, US, "United States", "PM2.5", 5, "µg/m³", 2020),
      Feature(5, <<"f","r">>, Missing, "PM2.5", 40, Missing, 2020),
      Feature(6, ZZ, Missing, "NO2", 8, "ppm", 2020),
      Feature(7, US, "United States", "NO2", 15, "µg/m³", 2020),
      Feature(8, FR, "France", "PM2.5", 12, "µg/m³", 2021),
      Feature(9, None, Missing, "NO2", 50, "µg/m³", 2021) }

DataFiles == {TableOf(S) : S \in {T \in SUBSET Features : Cardinality(T) <= MaxRows}}

Years == {2020, 2021}

\* the pollutants a filter is built from
FilterPollutants == {"NO2", "PM2.5"}

\* ------------------------------------------------ pollutants_tuple
PNone == [none |-> TRUE, t |-> <<>>]

PTuple(t) == [none |-> FALSE, t |-> t]

\* Python truth value of pollutants_tuple
Truthy(p) == ~p.none /\ Len(p.t) > 0

\* every tuple listing the elements of S once
Perms(S) == {t \in [1..Cardinality(S) -> S] : Range(t) = S}

\* the arguments that stand for the filter set S: its orderings, and None
\* for the empty set
ArgTuples(S) == {PTuple(t) : t \in Perms(S)} \cup (IF S = {} THEN {PNone} ELSE {})

VARIABLES
    file,                  \* content of data/cleaned/cleaneddata.geojson
    now,                   \* time(), in seconds
    cache,                 \* SimpleCache: key -> [val, expires]
    memver,                \* memoize version entry of each function: fname -> [expires]
    lru,                   \* lru_cache of iso2_to_iso3, least recently used first
    selected_pollutants,   \* the module-level set of main.py
    inYear,                \* the year under study
    inSet,                 \* the pollutant filter under study, as a set
    ret,                   \* the last call and what it returned
    reads,                 \* how many times the data file has been read
    fetch,                 \* the run of fetch_all_data of get_data.py
    nav,                   \* the navigation buttons and the two sections they toggle
    threads,               \* the update_map executions in progress on the server
    written,               \* when the data file was last written
    raw                    \* content of the raw GeoJSON file that clean_data.py reads

vars == <<file, now, cache, memver, lru, selected_pollutants, inYear, inSet, ret, reads,
          fetch, nav, threads, written, raw>>

\* nothing fetched, nothing to clean, nothing clicked, no callback in progress
Idle ==
    /\ fetch = <<>>
    /\ nav = <<>>
    /\ threads = <<>>
    /\ written = 0
    /\ raw = <<>>

\* ------------------------------------------------ flask_caching / functools
LoadTimeout == 3600
CountriesTimeout == 3600
FilteredTimeout == 600
PollutionTimeout == 600
MapTimeout == 600
LruMaxsize == 128

\* the mutable stores a call threads through
Stores == [cache |-> cache, memver |-> memver, lru |-> lru, reads |-> reads]

\* SimpleCache.get finds the entry while expires > time()
CacheHas(s, k) == k \in DOMAIN s.cache /\ s.cache[k].expires > now

\* SimpleCache.set
CacheSet(s, k, v, timeout) ==
    [s EXCEPT !.cache = (k :> [val |-> v, expires |-> now + timeout]) @@ @]

\* Cache._memoize_version: the key of a memoized call carries the function's
\* version hash, itself a cache entry set with the function's timeout; once
\* it has expired a new hash is drawn and the entries keyed by the old one
\* are out of reach
MemoizeVersion(s, fname, timeout) ==
    IF fname \in DOMAIN s.memver /\ s.memver[fname].expires > now THEN s
    ELSE [s EXCEPT
            !.memver = (fname :> [expires |-> now + timeout]) @@ @,
            !.cache  = [k \in {j \in DOMAIN s.cache : j[1] # fname} |-> s.cache[k]]]

\* an entry handed to the caller by reference: what the caller does to the
\* object is done to the entry
PickledEntry_ByReference(entry, mutated) == [entry EXCEPT !.val = mutated]

\* SimpleCache keeps pickle.dumps(value) and get answers pickle.loads of it:
\* the entry is a copy of its own, and what a caller does afterwards to the
\* object it holds leaves the entry as it was stored
PickledEntry(entry, mutated) == entry

\* the stores once the caller has changed, in place, the object it got for key k
AfterMutation(s, k, mutated) ==
    IF k \in DOMAIN s.cache THEN [s EXCEPT !.cache[k] = PickledEntry(@, mutated)] ELSE s

\* ------------------------------------------------ main.py
\* gpd.read_file("data/cleaned/cleaneddata.geojson")
ReadFile(s) == [s EXCEPT !.reads = @ + 1]

load_geojson_data_body ==
    [i \in DOMAIN file |->
        [year |-> file[i].measurements_lastupdated[1],
         lat  |-> file[i].geometry[2],
         lon  |-> file[i].geometry[1]] @@ file[i]]

\* an entry that is found whatever its age: the file is read once
load_geojson_data_Pinned(s) ==
    LET k == <<"load_geojson_data", <<>>>>
    IN  IF k \in DOMAIN s.cache THEN [s |-> s, val |-> s.cache[k].val]
        ELSE LET v == load_geojson_data_body
             IN  [s |-> CacheSet(ReadFile(s), k, v, LoadTimeout), val |-> v]

\* the file read on every call, the entry never looked up
load_geojson_data_Uncached(s) ==
    LET s1 == MemoizeVersion(s, "load_geojson_data", LoadTimeout)
        k  == <<"load_geojson_data", <<>>>>
        v  == load_geojson_data_body
    IN  [s |-> CacheSet(ReadFile(s1), k, v, LoadTimeout), val |-> v]

\* @cache.memoize(timeout=3600) around load_geojson_data_body
load_geojson_data(s) ==
    LET s1 == MemoizeVersion(s, "load_geojson_data", LoadTimeout)
        k  == <<"load_geojson_data", <<>>>>
    IN  IF CacheHas(s1, k) THEN [s |-> s1, val |-> s1.cache[k].val]
        ELSE LET v == load_geojson_data_body
             IN  [s |-> CacheSet(ReadFile(s1), k, v, LoadTimeout), val |-> v]

\* a hit answers with the most recently stored result, whatever its key
iso2_to_iso3_AnyHit(s, iso2_code) ==
    IF \E i \in DOMAIN s.lru : s.lru[i].key = iso2_code
    THEN [s |-> s, val |-> s.lru[Len(s.lru)].val]
    ELSE LET v   == iso2_to_iso3_body(iso2_code)
             all == s.lru \o <<[key |-> iso2_code, val |-> v]>>
         IN  [s |-> [s EXCEPT !.lru = IF Len(all) > LruMaxsize THEN Tail(all) ELSE all],
              val |-> v]

\* @lru_cache(maxsize=128) around iso2_to_iso3_body
iso2_to_iso3(s, iso2_code) ==
    IF \E i \in DOMAIN s.lru : s.lru[i].key = iso2_code
    THEN LET i == CHOOSE j \in DOMAIN s.lru : s.lru[j].key = iso2_code
             e == s.lru[i]
         IN  [s |-> [s EXCEPT !.lru = SelectSeq(s.lru, LAMBDA x : x # e) \o <<e>>],
              val |-> e.val]
    ELSE LET v   == iso2_to_iso3_body(iso2_code)
             all == s.lru \o <<[key |-> iso2_code, val |-> v]>>
         IN  [s |-> [s EXCEPT !.lru = IF Len(all) > LruMaxsize THEN Tail(all) ELSE all],
              val |-> v]

get_all_countries_df(s) ==
    LET s1 == MemoizeVersion(s, "get_all_countries_df", CountriesTimeout)
        k  == <<"get_all_countries_df", <<>>>>
    IN  IF CacheHas(s1, k) THEN [s |-> s1, val |-> s1.cache[k].val]
        ELSE LET v == get_all_countries_df_body
             IN  [s |-> CacheSet(s1, k, v, CountriesTimeout), val |-> v]

\* the pollutant filter left out
get_filtered_data_body_YearOnly(data, year, pollutants_tuple) ==
    SelectSeq(data, LAMBDA r : r.year = year)

\* "if pollutants_tuple is not None" in place of "if pollutants_tuple"
get_filtered_data_body_NotNone(data, year, pollutants_tuple) ==
    LET data_filtered == SelectSeq(data, LAMBDA r : r.year = year)
    IN  IF ~pollutants_tuple.none
        THEN SelectSeq(data_filtered,
                       LAMBDA r : r.measurements_parameter \in Range(pollutants_tuple.t))
        ELSE data_filtered

get_filtered_data_body(data, year, pollutants_tuple) ==
    LET data_filtered == SelectSeq(data, LAMBDA r : r.year = year)
    IN  IF Truthy(pollutants_tuple)
        THEN SelectSeq(data_filtered,
                       LAMBDA r : r.measurements_parameter \in Range(pollutants_tuple.t))
        ELSE data_filtered

get_filtered_data(s, year, pollutants_tuple) ==
    LET s1 == MemoizeVersion(s, "get_filtered_data", FilteredTimeout)
        k  == <<"get_filtered_data", <<year, pollutants_tuple>>>>
    IN  IF CacheHas(s1, k) THEN [s |-> s1, val |-> s1.cache[k].val]
        ELSE LET data == load_geojson_data(s1)
                 v    == get_filtered_data_body(data.val, year, pollutants_tuple)
             IN  [s |-> CacheSet(data.s, k, v, FilteredTimeout), val |-> v]

\* pollution_by_country['country'].apply(iso2_to_iso3), in row order
RECURSIVE ApplyIso(_, _)
ApplyIso(s, codes) ==
    IF codes = <<>> THEN [s |-> s, val |-> <<>>]
    ELSE LET first == iso2_to_iso3(s, Head(codes))
             rest  == ApplyIso(first.s, Tail(codes))
         IN  [s |-> rest.s, val |-> <<first.val>> \o rest.val]

\* the sum of a group divided by the length of the whole table
GroupMean_WholeTable(data) ==
    LET keys == SortedStrs({data[i].country : i \in DOMAIN data} \ {None})
    IN  [i \in DOMAIN keys |->
            LET rows == SelectSeq(data, LAMBDA r : r.country = keys[i])
            IN  [country |-> keys[i], avg_pollution |-> Frac(SumValues(rows), Len(data))]]

\* data.groupby('country')['measurements_value'].mean().reset_index():
\* one row per non-null country, in ascending order of the key
GroupMean(data) ==
    LET keys == SortedStrs({data[i].country : i \in DOMAIN data} \ {None})
    IN  [i \in DOMAIN keys |->
            LET rows == SelectSeq(data, LAMBDA r : r.country = keys[i])
            IN  [country |-> keys[i], avg_pollution |-> Frac(SumValues(rows), Len(rows))]]

\* dropna left out
DropNaIso3_Omitted(rows) == rows

\* dropna(subset=['country_iso3'])
DropNaIso3(rows) == SelectSeq(rows, LAMBDA r : r.country_iso3 # None)

calculate_country_pollution(s, year, pollutants_tuple) ==
    LET s1 == MemoizeVersion(s, "calculate_country_pollution", PollutionTimeout)
        k  == <<"calculate_country_pollution", <<year, pollutants_tuple>>>>
    IN  IF CacheHas(s1, k) THEN [s |-> s1, val |-> s1.cache[k].val]
        ELSE LET data == get_filtered_data(s1, year, pollutants_tuple)
                 pollution_by_country == GroupMean(data.val)
                 iso3 == ApplyIso(data.s, [i \in DOMAIN pollution_by_country |->
                                              pollution_by_country[i].country])
                 v == DropNaIso3([i \in DOMAIN pollution_by_country |->
                                     [country_iso3 |-> iso3.val[i]] @@ pollution_by_country[i]])
             IN  [s |-> CacheSet(iso3.s, k, v, PollutionTimeout), val |-> v]

\* all_countries_df.merge(pollution_by_country[['country_iso3', 'avg_pollution']],
\*                        on='country_iso3', how='left')
RECURSIVE MergeLeft(_, _)
MergeLeft(left, right) ==
    IF left = <<>> THEN <<>>
    ELSE LET l       == Head(left)
             matches == SelectSeq(right, LAMBDA r : r.country_iso3 = l.country_iso3)
             rows    == IF matches = <<>>
                        THEN <<[avg_pollution |-> NaN] @@ l>>
                        ELSE [i \in DOMAIN matches |->
                                 [avg_pollution |-> matches[i].avg_pollution] @@ l]
         IN  rows \o MergeLeft(Tail(left), right)

\* fillna(0) left out
FillNa0_Omitted(rows) == rows

\* world_pollution['avg_pollution'].fillna(0)
FillNa0(rows) ==
    [i \in DOMAIN rows |->
        IF IsNaN(rows[i].avg_pollution) THEN [rows[i] EXCEPT !.avg_pollution = <<0, 1>>]
        ELSE rows[i]]

\* an inner join: the countries without data left out
WorldPollution_Inner(all_countries_df, pollution_by_country) ==
    SelectSeq(MergeLeft(all_countries_df, pollution_by_country),
              LAMBDA r : ~IsNaN(r.avg_pollution))

\* the merged table built in create_map
WorldPollution(all_countries_df, pollution_by_country) ==
    FillNa0(MergeLeft(all_countries_df, pollution_by_country))

\* the first value of the series
SeriesMin_First(q) == IF q = <<>> THEN NaN ELSE q[1]

\* Series.min() / Series.max(): NaN for an empty series
SeriesMin(q) ==
    IF q = <<>> THEN NaN
    ELSE CHOOSE x \in Range(q) : \A y \in Range(q) : FracLeq(x, y)

SeriesMax(q) ==
    IF q = <<>> THEN NaN
    ELSE CHOOSE x \in Range(q) : \A y \in Range(q) : FracLeq(y, x)

\* Series.unique(): the values in order of first appearance
RECURSIVE Unique(_)
Unique(q) ==
    IF q = <<>> THEN <<>>
    ELSE LET front == Unique(SubSeq(q, 1, Len(q) - 1))
             last  == q[Len(q)]
         IN  IF last \in Range(front) THEN front ELSE Append(front, last)

\* data['level'] = data.apply(...) and data['hover_text'] = data.apply(...):
\* two columns added in place to the table create_map got from get_filtered_data
WithLevels(data) ==
    [i \in DOMAIN data |->
        LET level == get_pollution_level(data[i].measurements_parameter,
                                         data[i].measurements_value)
        IN  [ level      |-> level,
              hover_text |-> << "Localisation inconnue", data[i].country_name_en,
                                data[i].measurements_parameter, data[i].measurements_value,
                                data[i].measurements_unit, level >> ]
            @@ data[i]]

\* the figure: the choropleth trace, then one marker trace per pollutant
create_map_body(data, pollution_by_country, all_countries_df) ==
    LET world_pollution == WorldPollution(all_countries_df, pollution_by_country)
        avg        == [i \in DOMAIN pollution_by_country |-> pollution_by_country[i].avg_pollution]
        pollutants == Unique([i \in DOMAIN data |-> data[i].measurements_parameter])
    IN  [ locations |-> [i \in DOMAIN world_pollution |-> world_pollution[i].country_iso3],
          z         |-> [i \in DOMAIN world_pollution |-> world_pollution[i].avg_pollution],
          zmin      |-> SeriesMin(avg),
          zmax      |-> SeriesMax(avg),
          markers   |-> [j \in DOMAIN pollutants |->
                          LET pollutant_data ==
                                 SelectSeq(data, LAMBDA r : r.measurements_parameter = pollutants[j])
                          IN  [ name |-> pollutants[j],
                                lon  |-> [i \in DOMAIN pollutant_data |-> pollutant_data[i].lon],
                                lat  |-> [i \in DOMAIN pollutant_data |-> pollutant_data[i].lat],
                                level |-> [i \in DOMAIN pollutant_data |-> pollutant_data[i].level],
                                text  |-> [i \in DOMAIN pollutant_data |->
                                             pollutant_data[i].hover_text] ]] ]

create_map(s, year, pollutants_tuple) ==
    LET s1 == MemoizeVersion(s, "create_map", MapTimeout)
        k  == <<"create_map", <<year, pollutants_tuple>>>>
    IN  IF CacheHas(s1, k) THEN [s |-> s1, val |-> s1.cache[k].val]
        ELSE LET data == get_filtered_data(s1, year, pollutants_tuple)
                 pollution_by_country == calculate_country_pollution(data.s, year, pollutants_tuple)
                 all_countries_df == get_all_countries_df(pollution_by_country.s)
                 levelled == WithLevels(data.val)
                 mutated == AfterMutation(all_countries_df.s,
                                          <<"get_filtered_data", <<year, pollutants_tuple>>>>,
                                          levelled)
                 v == create_map_body(levelled, pollution_by_country.val, all_countries_df.val)
             IN  [s |-> CacheSet(mutated, k, v, MapTimeout), val |-> v]

\* ------------------------------------------------ main.py: update_map
get_color_by_pollutant(pollutant) ==
    LET colors == ("PM2.5" :> "#EF4444") @@ ("PM10" :> "#F97316") @@ ("CO" :> "#A855F7") @@
                  ("NO2" :> "#3B82F6") @@ ("SO2" :> "#10B981") @@ ("O3" :> "#06B6D4")
    IN  IF pollutant \in DOMAIN colors THEN colors[pollutant] ELSE "#6B7280"

pollutant_map ==
    ("btn-pm25" :> "PM2.5") @@ ("btn-pm10" :> "PM10") @@ ("btn-co" :> "CO") @@
    ("btn-no2" :> "NO2") @@ ("btn-so2" :> "SO2") @@ ("btn-o3" :> "O3")

\* the characters of a pollutant name
Spelling ==
    ("PM2.5" :> <<"P","M","2",".","5">>) @@ ("PM10" :> <<"P","M","1","0">>) @@
    ("CO" :> <<"C","O">>) @@ ("NO2" :> <<"N","O","2">>) @@
    ("SO2" :> <<"S","O","2">>) @@ ("O3" :> <<"O","3">>)

Digits == <<"0","1","2","3","4","5","6","7","8","9">>

\* code point of a character of a pollutant name
CodePoint(c) ==
    IF c = "." THEN 46
    ELSE IF \E i \in 1..10 : Digits[i] = c THEN 47 + (CHOOSE i \in 1..10 : Digits[i] = c)
    ELSE Ord(c)

\* a < b for two pollutant names, as sorted() compares str
NameLess(a, b) ==
    LET x == Spelling[a]
        y == Spelling[b]
    IN  \/ \E i \in 1..Len(x) :
              /\ i <= Len(y)
              /\ \A j \in 1..(i - 1) : x[j] = y[j]
              /\ CodePoint(x[i]) < CodePoint(y[i])
        \/ /\ Len(x) < Len(y)
           /\ \A j \in 1..Len(x) : x[j] = y[j]

\* sorted(S) for a set of pollutant names
RECURSIVE SortedNames(_)
SortedNames(S) ==
    IF S = {} THEN <<>>
    ELSE LET m == CHOOSE x \in S : \A y \in S \ {x} : NameLess(x, y)
         IN  <<m>> \o SortedNames(S \ {m})

\* tuple(selected_pollutants): the set in the order it happens to iterate in
pollutants_tuple_of_Unsorted(selected) == ArgTuples(selected)

\* tuple(sorted(selected_pollutants)) if len(selected_pollutants) > 0 else None;
\* the set of the values the expression can take
pollutants_tuple_of(selected) ==
    {IF Cardinality(selected) > 0 THEN PTuple(SortedNames(selected)) ELSE PNone}

\* the button click handled at the head of update_map
ToggleSelected_AddOnly(selected, button_id) ==
    IF button_id \in DOMAIN pollutant_map
    THEN selected \cup {pollutant_map[button_id]}
    ELSE selected

ToggleSelected(selected, button_id) ==
    IF button_id \in DOMAIN pollutant_map
    THEN LET pollutant == pollutant_map[button_id]
         IN  IF pollutant \in selected THEN selected \ {pollutant}
             ELSE selected \cup {pollutant}
    ELSE selected

\* f"{x:.2f}": x to the nearest hundredth, an exact tie to the even one
Format2f(q) ==
    LET n  == 100 * q[1]
        fl == n \div q[2]
        r  == n % q[2]
    IN  IF 2 * r < q[2] THEN fl
        ELSE IF 2 * r > q[2] THEN fl + 1
        ELSE IF fl % 2 = 0 THEN fl ELSE fl + 1

IsLeap(y) == (y % 4 = 0 /\ y % 100 # 0) \/ y % 400 = 0

MonthDays(y) == <<31, IF IsLeap(y) THEN 29 ELSE 28, 31, 30, 31, 30, 31, 31, 30, 31, 30, 31>>

RECURSIVE DayMonth(_, _, _)
DayMonth(y, doy, m) ==
    IF doy <= MonthDays(y)[m] THEN <<doy, m, y>>
    ELSE DayMonth(y, doy - MonthDays(y)[m], m + 1)

\* strftime('%d/%m/%Y') of a timestamp <<year, day of year>>
Strftime(ts) == DayMonth(ts[1], ts[2], 1)

\* a <= b for two timestamps
TsLeq(a, b) == a[1] < b[1] \/ (a[1] = b[1] /\ a[2] <= b[2])

\* sort_values(ascending=True): every order of the keyed rows that ascends by
\* key; rows of equal key come in either order
RECURSIVE AscendingOrders(_)
AscendingOrders(S) ==
    IF S = {} THEN {<<>>}
    ELSE UNION { {<<m.row>> \o q : q \in AscendingOrders(S \ {m})} :
                 m \in {x \in S : \A y \in S : FracLeq(x.key, y.key)} }

\* sort_values(ascending=False)
RECURSIVE DescendingOrders(_)
DescendingOrders(S) ==
    IF S = {} THEN {<<>>}
    ELSE UNION { {<<m.row>> \o q : q \in DescendingOrders(S \ {m})} :
                 m \in {x \in S : \A y \in S : FracLeq(y.key, x.key)} }

TopN == 5

\* the whole table kept
HeadN_All(q) == q

\* .head(5)
HeadN(q) == SubSeq(q, 1, IF Len(q) < TopN THEN Len(q) ELSE TopN)

\* data_filtered.groupby(['country', 'country_name_en']).agg({'measurements_value':
\* 'mean', 'measurements_unit': 'first', 'measurements_lastupdated': 'max'}):
\* one row per pair of keys, rows with a null key left out; 'first' is the
\* first non-null unit of the group
GroupTop(data) ==
    LET named == SelectSeq(data, LAMBDA r : r.country # None /\ r.country_name_en # Missing)
        keys  == {<<named[i].country, named[i].country_name_en>> : i \in DOMAIN named}
    IN  { LET rows  == SelectSeq(named, LAMBDA r : <<r.country, r.country_name_en>> = k)
              units == SelectSeq(rows, LAMBDA r : r.measurements_unit # Missing)
          IN  [ country |-> k[1], country_name_en |-> k[2],
                measurements_value |-> Frac(SumValues(rows), Len(rows)),
                measurements_unit |-> IF units = <<>> THEN Missing
                                      ELSE Head(units).measurements_unit,
                measurements_lastupdated |->
                    CHOOSE t \in {rows[i].measurements_lastupdated : i \in DOMAIN rows} :
                        \A i \in DOMAIN rows : TsLeq(rows[i].measurements_lastupdated, t) ]
          : k \in keys }

\* the tables top_countries can be: sorted by mean, descending, cut to five rows
top_countries_of(data) ==
    { HeadN(q) : q \in DescendingOrders({[key |-> g.measurements_value, row |-> g] :
                                         g \in GroupTop(data)}) }

\* one <tr> of the ranking table per row of top_countries
table_rows_of(top_countries) ==
    [i \in DOMAIN top_countries |->
        LET row == top_countries[i]
        IN  [ rank         |-> i,
              country_name |-> IF row.country_name_en # Missing THEN row.country_name_en
                               ELSE row.country,
              unit         |-> IF row.measurements_unit # Missing THEN row.measurements_unit
                               ELSE "µg/m³",
              value        |-> Format2f(row.measurements_value),
              date         |-> Strftime(row.measurements_lastupdated) ]]

\* the order the button styles are returned in
StyleOrder == <<"PM2.5", "PM10", "CO", "NO2", "SO2", "O3">>

get_button_style(selected, pollutant) ==
    LET color == get_color_by_pollutant(pollutant)
        is_selected == pollutant \in selected
    IN  [ backgroundColor |-> IF is_selected THEN color ELSE "white",
          color           |-> IF is_selected THEN "white" ELSE color,
          fontWeight      |-> IF is_selected THEN "bold" ELSE "normal" ]

\* ------------------------------------------------ graphique_vie_pays.py, histo_annee_perdue.py
RECURSIVE SumOf(_)
SumOf(q) == IF q = <<>> THEN 0 ELSE Head(q) + SumOf(Tail(q))

\* data['measurements_value'].apply(calculate_years_lost), in hundredths of a
\* year; the file holds whole concentrations, which are never a rounding tie
YearsLostOf(value) == CHOOSE v \in calculate_years_lost(10 * value, SeuilDefaut) : TRUE

\* every pollutant kept
PM25Only_AllPollutants(data) == data

\* data[data['measurements_parameter'] == 'PM2.5']
PM25Only(data) == SelectSeq(data, LAMBDA r : r.measurements_parameter = "PM2.5")

\* data[data['measurements_lastupdated'].dt.year == year]
OfYear(data, year) == SelectSeq(data, LAMBDA r : r.measurements_lastupdated[1] = year)

\* regional_data[regional_data['region'] != 'Autre']
DropAutre(regional_data) == {g \in regional_data : g.region # "Autre"}

\* data.groupby('region').agg({'years_lost': 'mean', 'measurements_value': 'mean',
\* 'country': 'count'}), the rows as a set
RegionalData(data) ==
    { LET rows == SelectSeq(data, LAMBDA r : get_region(r.country) = g)
      IN  [ region          |-> g,
            avg_years_lost  |-> Frac(SumOf([i \in DOMAIN rows |->
                                        YearsLostOf(rows[i].measurements_value)]), Len(rows)),
            avg_pm25        |-> Frac(SumValues(rows), Len(rows)),
            nb_measurements |-> Len(SelectSeq(rows, LAMBDA r : r.country # None)) ]
      : g \in {get_region(data[i].country) : i \in DOMAIN data} }

\* create_life_expectancy_graph(year): the file is read, not taken from
\* load_geojson_data. The figures it can return are the bar traces, one bar per
\* row of regional_data sorted by avg_years_lost.
create_life_expectancy_graph(s, year) ==
    LET data == OfYear(PM25Only(file), year)
        regional_data == DropAutre(RegionalData(data))
    IN  [ s    |-> ReadFile(s),
          vals |-> { [ bars   |-> q,
                       height |-> IF 400 > Len(q) * 50 THEN 400 ELSE Len(q) * 50 ]
                     : q \in AscendingOrders({[key |-> g.avg_years_lost, row |-> g] :
                                              g \in regional_data}) } ]

Bins == <<0, 5, 15, 25, 35, 50, 75, 100, 150, 200, 500>>

BinLabels == <<"0-5", "5-15", "15-25", "25-35", "35-50", "50-75", "75-100",
               "100-150", "150-200", "200+">>

\* pd.cut(value, bins, labels, include_lowest=True): the index of the interval
\* (Bins[i], Bins[i+1]] holding the value, the first one closed on the left;
\* 0 (no category) for a value outside every interval
PdCut(value) ==
    IF value < Bins[1] \/ value > Bins[Len(Bins)] THEN 0
    ELSE CHOOSE i \in DOMAIN BinLabels :
            /\ value <= Bins[i + 1]
            /\ \A j \in 1..(i - 1) : value > Bins[j + 1]

\* create_years_lost_histogram(year): one bar per interval that holds a
\* measurement, in the order of the intervals
create_years_lost_histogram(s, year) ==
    LET data_filtered == PM25Only(OfYear(file, year))
        range_stats ==
            [i \in DOMAIN BinLabels |->
                LET rows == SelectSeq(data_filtered, LAMBDA r : PdCut(r.measurements_value) = i)
                IN  IF rows = <<>> THEN <<>>
                    ELSE <<[ pm25_range     |-> BinLabels[i],
                             avg_years_lost |-> Frac(SumOf([j \in DOMAIN rows |->
                                                  YearsLostOf(rows[j].measurements_value)]),
                                                  Len(rows)),
                             count          |-> Len(rows) ]>>]
    IN  [ s   |-> ReadFile(s),
          val |-> [ bars   |-> range_stats[1] \o range_stats[2] \o range_stats[3] \o
                               range_stats[4] \o range_stats[5] \o range_stats[6] \o
                               range_stats[7] \o range_stats[8] \o range_stats[9] \o
                               range_stats[10],
                    title_year |-> year,
                    height |-> 600 ] ]

\* ------------------------------------------------ the calls
\* the caller of a memoized function gets what it returned and the stores it left
Returns(op, args, r) ==
    /\ cache' = r.s.cache
    /\ memver' = r.s.memver
    /\ lru' = r.s.lru
    /\ reads' = r.s.reads
    /\ ret' = [op |-> op, args |-> args, val |-> r.val]
    /\ UNCHANGED <<file, now, selected_pollutants, inYear, inSet, fetch, nav, threads, written, raw>>

GetFilteredData ==
    \E p \in ArgTuples(inSet) :
        Returns("get_filtered_data", <<inYear, p>>, get_filtered_data(Stores, inYear, p))

CalculateCountryPollution ==
    \E p \in ArgTuples(inSet) :
        Returns("calculate_country_pollution", <<inYear, p>>,
                calculate_country_pollution(Stores, inYear, p))

CreateMap ==
    \E p \in ArgTuples(inSet) :
        Returns("create_map", <<inYear, p>>, create_map(Stores, inYear, p))

\* the strings tried on iso2_to_iso3 and get_region
CodeInputs == {FR, <<"f","r">>, ZZ, <<>>, FRA}

Iso2ToIso3 ==
    \E code \in CodeInputs :
        Returns("iso2_to_iso3", <<code>>, iso2_to_iso3(Stores, code))

GetRegion ==
    \E code \in CodeInputs \cup {US, <<"I","N">>} :
        /\ ret' = [op |-> "get_region", args |-> <<code>>, val |-> get_region(code)]
        /\ UNCHANGED <<file, now, cache, memver, lru, selected_pollutants, inYear, inSet, reads, fetch, nav, threads, written, raw>>

CalculateYearsLost ==
    \E c \in 0..MaxConc :
        \E v \in calculate_years_lost(c, SeuilDefaut) :
            /\ ret' = [op |-> "calculate_years_lost", args |-> <<c>>, val |-> v]
            /\ UNCHANGED <<file, now, cache, memver, lru, selected_pollutants, inYear, inSet, reads, fetch, nav, threads, written, raw>>

\* update_map, one run of the callback: button_id is the component that
\* triggered it ("" when none did), selected_year the value of the slider
UpdateMapFrom(sel, button_id, selected_year) ==
        \E pollutants_tuple \in pollutants_tuple_of(sel) :
        \E data_filtered \in {get_filtered_data(Stores, selected_year, pollutants_tuple)} :
        \E top_countries \in top_countries_of(data_filtered.val) :
        \E fig \in {create_map(data_filtered.s, selected_year, pollutants_tuple)} :
            /\ selected_pollutants' = sel
            /\ cache' = fig.s.cache
            /\ memver' = fig.s.memver
            /\ lru' = fig.s.lru
            /\ reads' = fig.s.reads
            /\ inYear' = selected_year
            /\ ret' = [ op   |-> "update_map",
                        args |-> <<selected_year, button_id>>,
                        val  |-> [ filtered_args    |-> <<selected_year, pollutants_tuple>>,
                                   map_args         |-> <<selected_year, pollutants_tuple>>,
                                   data_filtered    |-> data_filtered.val,
                                   fig              |-> fig.val,
                                   nb_pays          |-> Cardinality(
                                        {data_filtered.val[i].country :
                                            i \in DOMAIN data_filtered.val} \ {None}),
                                   polluant_display |-> IF Truthy(pollutants_tuple)
                                                        THEN SortedNames(Range(pollutants_tuple.t))
                                                        ELSE <<"Tous">>,
                                   top_countries    |-> top_countries,
                                   ranking_table    |-> table_rows_of(top_countries),
                                   styles           |-> [i \in DOMAIN StyleOrder |->
                                                            get_button_style(sel, StyleOrder[i])] ] ]
            /\ UNCHANGED <<file, now, inSet, fetch, nav, written, raw>>

\* update_map run from its first line to its last with no other callback in between
UpdateMap(button_id, selected_year) ==
    /\ UpdateMapFrom(ToggleSelected(selected_pollutants, button_id), button_id, selected_year)
    /\ UNCHANGED threads

\* the callbacks of the two graphs of the health section
UpdateLifeExpectancy ==
    /\ reads < MaxReads
    /\ LET r == create_life_expectancy_graph(Stores, inYear)
       IN  \E v \in r.vals :
              /\ reads' = r.s.reads
              /\ ret' = [op |-> "update_life_expectancy", args |-> <<inYear>>, val |-> v]
    /\ UNCHANGED <<file, now, cache, memver, lru, selected_pollutants, inYear, inSet, fetch, nav, threads, written, raw>>

UpdateYearsLostHistogram ==
    /\ reads < MaxReads
    /\ LET r == create_years_lost_histogram(Stores, inYear)
       IN  /\ reads' = r.s.reads
           /\ ret' = [op |-> "update_years_lost_histogram", args |-> <<inYear>>, val |-> r.val]
    /\ UNCHANGED <<file, now, cache, memver, lru, selected_pollutants, inYear, inSet, fetch, nav, threads, written, raw>>

\* time() moves on by half the shortest timeout
TickStep == FilteredTimeout \div 2

Tick ==
    /\ now < MaxSteps * TickStep
    /\ now' = now + TickStep
    /\ UNCHANGED <<file, cache, memver, lru, selected_pollutants, inYear, inSet, ret, reads, fetch, nav, threads, written, raw>>

\* ------------------------------------------------ specifications
NoCall == [op |-> "none", args |-> <<>>, val |-> <<>>]

EmptyStores ==
    /\ now = 0
    /\ cache = <<>>
    /\ memver = <<>>
    /\ lru = <<>>
    /\ selected_pollutants = {}
    /\ ret = NoCall
    /\ reads = 0
    /\ Idle

\* the aggregation pipeline over every data file, year and filter
Init ==
    /\ file \in DataFiles
    /\ inYear \in Years
    /\ inSet \in SUBSET FilterPollutants
    /\ EmptyStores

Next == GetFilteredData \/ CalculateCountryPollution \/ CreateMap

Spec == Init /\ [][Next]_vars

\* the resolver and the helpers of mapping_region.py
InitFn ==
    /\ file = <<>>
    /\ inYear = 2020
    /\ inSet = {}
    /\ EmptyStores

NextFn == Iso2ToIso3 \/ GetRegion \/ CalculateYearsLost

SpecFn == InitFn /\ [][NextFn]_vars

\* the dashboard callbacks of one year over a data file of many countries
FR2 == "République française"

DashFeatures ==
    { Feature(1, <<"D","E">>, "Germany", "PM2.5", 10, "µg/m³", 2020),
      Feature(2, FR, "France", "PM2.5", 20, "µg/m³", 2020),
      Feature(3, FR, FR2, "PM2.5", 10, Missing, 2020),
      Feature(4, <<"I","N">>, "India", "PM2.5", 60, "µg/m³", 2020),
      Feature(5, US, "United States", "PM2.5", 5, "µg/m³", 2020),
      Feature(6, <<"f","r">>, "France", "PM2.5", 600, "µg/m³", 2020),
      Feature(7, FR, "France", "PM2.5", 30, "µg/m³", 2020),
      Feature(8, US, "United States", "NO2", 15, "µg/m³", 2020),
      Feature(9, ZZ, Missing, "PM2.5", 70, Missing, 2021) }

DashFiles == {TableOf(S) : S \in {T \in SUBSET DashFeatures : Cardinality(T) <= MaxDashRows}}

InitDash ==
    /\ file \in DashFiles
    /\ inYear \in Years
    /\ inSet = {}
    /\ selected_pollutants \in {{}, {"PM2.5"}}
    /\ now = 0
    /\ cache = <<>>
    /\ memver = <<>>
    /\ lru = <<>>
    /\ ret = NoCall
    /\ reads = 0
    /\ Idle

NextDash == UpdateMap("year-slider", inYear) \/ UpdateLifeExpectancy \/ UpdateYearsLostHistogram

SpecDash == InitDash /\ [][NextDash]_vars

\* clicks on the pollutant buttons and moves of the year slider
ClickFiles == {TableOf({f \in Features : f.idx \in I}) : I \in {{1, 2, 3, 4}, {4, 6, 7, 8}}}

\* the buttons clicked
ClickedButtons == {"btn-no2", "btn-pm25"}

InitClicks ==
    /\ file \in ClickFiles
    /\ inYear = 2020
    /\ inSet = {}
    /\ EmptyStores

\* a click on a button, a move of the slider, or a run no component triggered
\* (""); only a move of the slider changes the year
NextClicks ==
    \E button_id \in ClickedButtons \cup {"year-slider", ""}, selected_year \in Years :
        /\ button_id # "year-slider" => selected_year = inYear
        /\ UpdateMap(button_id, selected_year)

SpecClicks == InitClicks /\ [][NextClicks]_vars

\* the memoized functions called over time while the data file is rewritten
WriteFile ==
    /\ file' \in ClickFiles \ {file}
    /\ UNCHANGED <<now, cache, memver, lru, selected_pollutants, inYear, inSet, ret, reads, fetch, nav, threads, written, raw>>

InitCache ==
    /\ file \in ClickFiles
    /\ inYear = 2020
    /\ inSet = {}
    /\ EmptyStores

NextCache == GetFilteredData \/ CalculateCountryPollution \/ CreateMap \/ Tick \/ WriteFile

SpecCache == InitCache /\ [][NextCache]_vars

\* ------------------------------------------------ get_data.py
\* limit=1000 of every request
PageLimit == 1000

\* while page <= 5: the pages of locations asked for one country
LocationPages == 5

\* time.sleep(60) on a 429 answer
RetryWait == 60

\* the frames CPython gives a thread (sys.getrecursionlimit()); the source never
\* changes it
RecursionLimit == 1000

\* meta.get('found', 0)
MetaFound(meta) == IF "found" \in DOMAIN meta THEN meta.found ELSE 0

\* the server holds `found` results; page `page` carries the next `limit` of them
PageCount(found, limit, page) ==
    IF found <= (page - 1) * limit THEN 0
    ELSE IF found - (page - 1) * limit >= limit THEN limit
    ELSE found - (page - 1) * limit

\* what the server may answer to the request of a page: the page (200), a rate
\* limit (429), an error (500), or no answer at all (status 0: requests.get raises)
Answers(found, limit, page) ==
    { [status |-> 200, results |-> PageCount(found, limit, page), meta |-> [found |-> found]],
      [status |-> 429, results |-> 0, meta |-> <<>>],
      [status |-> 500, results |-> 0, meta |-> <<>>],
      [status |-> 0, results |-> 0, meta |-> <<>>] }

\* One attempt of get_locations with `depth` frames of it on the stack, given the answer of
\* the server: either the call returns (results, meta), or it sleeps and calls
\* itself with the arguments in `again`.  The recursive call runs inside the
\* try, so the RecursionError of the deepest frame is caught there and ([], {})
\* is returned through every frame.
get_locations_NextPage(limit, country, page, depth, answer) ==
    IF answer.status = 200
    THEN [retry |-> FALSE, results |-> answer.results, meta |-> answer.meta]
    ELSE IF answer.status = 429 /\ depth < RecursionLimit
    THEN [retry |-> TRUE, wait |-> RetryWait,
          again |-> [limit |-> limit, country |-> country, page |-> page + 1]]
    ELSE [retry |-> FALSE, results |-> 0, meta |-> <<>>]

get_locations(limit, country, page, depth, answer) ==
    IF answer.status = 200
    THEN [retry |-> FALSE, results |-> answer.results, meta |-> answer.meta]
    ELSE IF answer.status = 429 /\ depth < RecursionLimit
    THEN [retry |-> TRUE, wait |-> RetryWait,
          again |-> [limit |-> limit, country |-> country, page |-> page]]
    ELSE [retry |-> FALSE, results |-> 0, meta |-> <<>>]

\* one attempt of get_latest_by_parameter, likewise
get_latest_by_parameter(parameter, limit, page, depth, answer) ==
    IF answer.status = 200
    THEN [retry |-> FALSE, results |-> answer.results, meta |-> answer.meta]
    ELSE IF answer.status = 429 /\ depth < RecursionLimit
    THEN [retry |-> TRUE, wait |-> RetryWait,
          again |-> [parameter |-> parameter, limit |-> limit, page |-> page]]
    ELSE [retry |-> FALSE, results |-> 0, meta |-> <<>>]

\* how many of the n results of a page belong to the locations of the
\* countries asked for: any number, of which these stand for none, some, all
KeptOf(n) == {0, n \div 2, n}

\* len(results) < 1000 or page * 1000 >= found
LastPage(results, kept, page, found) == kept < PageLimit \/ page * PageLimit >= found

\* the call of get_locations or get_latest_by_parameter in progress
NewCall(fn, arg, page) == [fn |-> fn, arg |-> arg, limit |-> PageLimit, page |-> page, depth |-> 1, slept |-> 0]

NoStop == [fn |-> "none"]

\* no call in progress: fetch_all_data has returned
Finished == [fn |-> "none", arg |-> "", limit |-> PageLimit, page |-> 0, depth |-> 0, slept |-> 0]

\* fetch_all_data(parameters, countries, max_pages) about to send its first request
FetchStart(parameters, countries, max_pages, server) ==
    [ parameters |-> parameters, countries |-> countries, max_pages |-> max_pages,
      server |-> server,
      todo_countries |-> countries, todo_parameters |-> parameters,
      call |-> IF countries # <<>> THEN NewCall("get_locations", Head(countries), 1)
               ELSE IF parameters # <<>> THEN NewCall("get_latest_by_parameter", Head(parameters), 1)
               ELSE Finished,
      all_locations |-> 0, all_measurements |-> 0,
      fetched |-> 0, stopped |-> NoStop ]

\* the loop over the parameters starts, or goes on with the next parameter
NextParameter(f, todo) ==
    [f EXCEPT !.todo_countries = <<>>, !.todo_parameters = todo, !.fetched = 0,
              !.call = IF todo # <<>> THEN NewCall("get_latest_by_parameter", Head(todo), 1)
                       ELSE Finished]

NextCountry(f, todo) ==
    IF todo = <<>> THEN NextParameter(f, f.parameters)
    ELSE [f EXCEPT !.todo_countries = todo, !.fetched = 0,
                   !.call = NewCall("get_locations", Head(todo), 1)]

\* the end of a while loop, for the record: why it ended, on which page, with
\* how many results of how many
Stop(f, why, results, kept, found) ==
    [fn |-> f.call.fn, arg |-> f.call.arg, why |-> why, page |-> f.call.page,
     results |-> results, kept |-> kept, found |-> found,
     fetched |-> f.fetched + results]

\* the body of `while page <= 5` once get_locations has returned
AfterLocations(f, results, meta) ==
    IF results = 0
    THEN [NextCountry(f, Tail(f.todo_countries)) EXCEPT
              !.stopped = Stop(f, "empty", 0, 0, MetaFound(meta))]
    ELSE IF LastPage(results, results, f.call.page, MetaFound(meta))
    THEN [NextCountry(f, Tail(f.todo_countries)) EXCEPT
              !.all_locations = f.all_locations + results,
              !.stopped = Stop(f, "break", results, results, MetaFound(meta))]
    ELSE IF f.call.page + 1 <= LocationPages
    THEN [f EXCEPT !.all_locations = @ + results, !.fetched = @ + results,
                   !.call = NewCall("get_locations", f.call.arg, f.call.page + 1)]
    ELSE [NextCountry(f, Tail(f.todo_countries)) EXCEPT
              !.all_locations = f.all_locations + results,
              !.stopped = Stop(f, "max_pages", results, results, MetaFound(meta))]

\* the body of `while page <= max_pages` once get_latest_by_parameter has
\* returned; `kept` results are those of the locations fetched before
AfterLatest(f, results, kept, meta) ==
    IF results = 0
    THEN [NextParameter(f, Tail(f.todo_parameters)) EXCEPT
              !.stopped = Stop(f, "empty", 0, 0, MetaFound(meta))]
    ELSE IF LastPage(results, kept, f.call.page, MetaFound(meta))
    THEN [NextParameter(f, Tail(f.todo_parameters)) EXCEPT
              !.all_measurements = f.all_measurements + kept,
              !.stopped = Stop(f, "break", results, kept, MetaFound(meta))]
    ELSE IF f.call.page + 1 <= f.max_pages
    THEN [f EXCEPT !.all_measurements = @ + kept, !.fetched = @ + results,
                   !.call = NewCall("get_latest_by_parameter", f.call.arg, f.call.page + 1)]
    ELSE [NextParameter(f, Tail(f.todo_parameters)) EXCEPT
              !.all_measurements = f.all_measurements + kept,
              !.stopped = Stop(f, "max_pages", results, kept, MetaFound(meta))]

\* the call in progress sleeps and calls itself
Retried(f, r) ==
    [f EXCEPT !.call.depth = @ + 1, !.call.slept = @ + r.wait, !.call.page = r.again.page,
              !.call.limit = r.again.limit]

\* fetch_all_data: one request of a page of locations and what follows it
FetchLocations ==
    /\ fetch.call.fn = "get_locations"
    /\ \E answer \in Answers(fetch.server.locations, fetch.call.limit, fetch.call.page) :
         \E r \in {get_locations(fetch.call.limit, fetch.call.arg, fetch.call.page,
                                 fetch.call.depth, answer)} :
           fetch' = IF r.retry THEN Retried(fetch, r)
                    ELSE AfterLocations(fetch, r.results, r.meta)
    /\ UNCHANGED <<file, now, cache, memver, lru, selected_pollutants, inYear, inSet, ret,
                   reads, nav, threads, written, raw>>

\* fetch_all_data: one request of a page of measurements and what follows it
FetchLatest ==
    /\ fetch.call.fn = "get_latest_by_parameter"
    /\ \E answer \in Answers(fetch.server.latest, fetch.call.limit, fetch.call.page) :
         \E r \in {get_latest_by_parameter(fetch.call.arg, fetch.call.limit, fetch.call.page,
                                           fetch.call.depth, answer)} :
           \E kept \in IF r.retry THEN {0}
                       ELSE IF fetch.countries # <<>> /\ fetch.all_locations > 0
                            THEN KeptOf(r.results) ELSE {r.results} :
             fetch' = IF r.retry THEN Retried(fetch, r)
                      ELSE AfterLatest(fetch, r.results, kept, r.meta)
    /\ UNCHANGED <<file, now, cache, memver, lru, selected_pollutants, inYear, inSet, ret,
                   reads, nav, threads, written, raw>>

\* the runs of fetch_all_data
FetchParameters == {<<"pm25">>, <<"pm25", "no2">>}

FetchCountries == {<<>>, <<"FR">>}

FetchMaxPages == {3}

\* how many locations, and how many latest measurements of a parameter, the
\* server holds
FoundLocations == {600, 1500}

FoundLatest == {0, 600, 2000, 3500}

InitFetch ==
    /\ \E parameters \in FetchParameters, countries \in FetchCountries,
          max_pages \in FetchMaxPages, l \in FoundLocations, m \in FoundLatest :
         fetch = FetchStart(parameters, countries, max_pages, [locations |-> l, latest |-> m])
    /\ file = <<>>
    /\ inYear = 2020
    /\ inSet = {}
    /\ now = 0
    /\ cache = <<>>
    /\ memver = <<>>
    /\ lru = <<>>
    /\ selected_pollutants = {}
    /\ ret = NoCall
    /\ reads = 0
    /\ nav = <<>>
    /\ threads = <<>>
    /\ written = 0
    /\ raw = <<>>

NextFetch == FetchLocations \/ FetchLatest

SpecFetch == InitFetch /\ [][NextFetch]_vars

\* ------------------------------------------------ clean_data.py
\* The values json.load builds: None, numbers, str, list and dict.  A dict is
\* a function of its keys, a list a sequence.
JNull == [t |-> "null", v |-> 0]

JNum(n) == [t |-> "num", v |-> n]

JStr(s) == [t |-> "str", v |-> s]

JList(l) == [t |-> "list", v |-> l]

JDict(d) == [t |-> "dict", v |-> d]

\* bool(x)
JTruthy(x) ==
    CASE x.t = "null" -> FALSE
      [] x.t = "num" -> x.v # 0
      [] x.t = "str" -> x.v # ""
      [] x.t = "list" -> x.v # <<>>
      [] x.t = "dict" -> DOMAIN x.v # {}

\* d.get(key) of a dict, and d.get(key, default)
JGetOr(d, key, default) == IF key \in DOMAIN d.v THEN d.v[key] ELSE default

JGet(d, key) == JGetOr(d, key, JNull)

\* len(x) of a list or a dict
JLen(x) == IF x.t = "list" THEN Len(x.v) ELSE Cardinality(DOMAIN x.v)

polluants_gardes == {"PM2.5", "PM10", "CO", "NO2", "SO2", "O3"}

\* except (KeyError, TypeError, AttributeError): continue
Caught_NoTypeError == {"KeyError", "AttributeError"}

Caught == {"KeyError", "TypeError", "AttributeError"}

\* The body of the try for one feature: "append" when the feature is kept,
\* "continue" when it is passed over, or the exception an expression raises:
\* .get on a value that is no dict, >= between a str, list or dict and 0, len of
\* a number, [0] on a dict.  The conditions are evaluated in the order of the
\* source, `and` and `or` stopping at the first operand that decides.
TryFeature(feature) ==
    IF feature.t # "dict" THEN "AttributeError"
    ELSE IF ~JTruthy(JGet(feature, "properties")) \/ ~JTruthy(JGet(feature, "geometry"))
    THEN "continue"
    ELSE LET props == feature.v["properties"]
             geometry == feature.v["geometry"]
         IN  IF geometry.t # "dict" THEN "AttributeError"
             ELSE IF ~JTruthy(JGet(geometry, "coordinates")) THEN "continue"
             ELSE IF props.t # "dict" THEN "AttributeError"
             ELSE LET coords == geometry.v["coordinates"]
                      polluant == JGet(props, "measurements_parameter")
                      value == JGet(props, "measurements_value")
                  IN  IF ~(polluant.t = "str" /\ polluant.v \in polluants_gardes)
                      THEN "continue"
                      ELSE IF value.t = "null" THEN "continue"
                      ELSE IF value.t # "num" THEN "TypeError"
                      ELSE IF ~(value.v >= 0) THEN "continue"
                      ELSE IF coords.t \notin {"list", "dict"} THEN "TypeError"
                      ELSE IF JLen(coords) # 2 THEN "continue"
                      ELSE IF coords.t = "dict" THEN "KeyError"
                      ELSE IF coords.v[1].t = "null" \/ coords.v[2].t = "null"
                      THEN "continue"
                      ELSE "append"

\* for feature in data['features']: the features appended, and the exception
\* that ended the loop, if one did
RECURSIVE FilterFeatures(_, _)
FilterFeatures(features, features_filtrees) ==
    IF features = <<>> THEN [raised |-> "", features |-> features_filtrees]
    ELSE LET did == TryFeature(Head(features))
         IN  IF did = "append"
             THEN FilterFeatures(Tail(features), Append(features_filtrees, Head(features)))
             ELSE IF did = "continue" \/ did \in Caught
             THEN FilterFeatures(Tail(features), features_filtrees)
             ELSE [raised |-> did, features |-> features_filtrees]

\* pays = feature['properties'].get('country_name_en', 'Inconnu')
PaysOf(feature) == JGetOr(feature.v["properties"], "country_name_en", JStr("Inconnu"))

\* the keys of compteur_pays in the order of their insertion
RECURSIVE PaysKeys(_, _)
PaysKeys(features, keys) ==
    IF features = <<>> THEN keys
    ELSE PaysKeys(Tail(features),
                  IF \E i \in DOMAIN keys : keys[i] = PaysOf(Head(features)) THEN keys
                  ELSE Append(keys, PaysOf(Head(features))))

\* compteur_pays[pays]
CompteurPays(features, pays) == Cardinality({i \in DOMAIN features : PaysOf(features[i]) = pays})

\* sorted(compteur_pays.items(), key=lambda x: x[1], reverse=True)[:5]: the
\* sort is stable, so a key comes after the keys that count more and after the
\* keys inserted before it that count as much
TopPays(features) ==
    LET keys == PaysKeys(features, <<>>)
        rank(i) == Cardinality({j \in DOMAIN keys :
                       \/ CompteurPays(features, keys[j]) > CompteurPays(features, keys[i])
                       \/ CompteurPays(features, keys[j]) = CompteurPays(features, keys[i]) /\ j < i})
    IN  {keys[i] : i \in {j \in DOMAIN keys : rank(j) < 5}}

\* The statistics printed once the file is saved: a list or a dict cannot be a
\* key of compteur_pays (TypeError), and f"{pays:20s}" takes a str only
\* (TypeError for None, ValueError for a number).  "" when all is printed.
Statistics(features) ==
    IF \E i \in DOMAIN features : PaysOf(features[i]).t \in {"list", "dict"} THEN "TypeError"
    ELSE IF \E pays \in TopPays(features) : pays.t = "null" THEN "TypeError"
    ELSE IF \E pays \in TopPays(features) : pays.t = "num" THEN "ValueError"
    ELSE ""

\* nettoyer_geojson on the features of the file read: whether the cleaned file
\* was written and with which features, and the exception that ended the run,
\* if one did, with the place where it was raised
nettoyer_geojson(features) ==
    LET filtered == FilterFeatures(features, <<>>)
    IN  IF filtered.raised # ""
        THEN [raised |-> filtered.raised, at |-> "filter", saved |-> FALSE,
              features |-> filtered.features]
        ELSE IF Len(features) = 0
        THEN [raised |-> "ZeroDivisionError", at |-> "count", saved |-> FALSE,
              features |-> filtered.features]
        ELSE [raised |-> Statistics(filtered.features), at |-> "statistics", saved |-> TRUE,
              features |-> filtered.features]

\* a feature of the raw file
RawFeature(properties, geometry) ==
    JDict("type" :> JStr("Feature") @@ "properties" :> properties @@ "geometry" :> geometry)

Measurement(parameter, value, name) ==
    JDict("measurements_parameter" :> parameter @@ "measurements_value" :> value
          @@ "country_name_en" :> name)

Point(coordinates) == JDict("type" :> JStr("Point") @@ "coordinates" :> coordinates)

Paris == Point(JList(<<JNum(2), JNum(48)>>))

\* the features a raw file is made of: well formed, and malformed in each of
\* the ways the loop tells apart
RawFeatures ==
    { RawFeature(Measurement(JStr("PM2.5"), JNum(12), JStr("France")), Paris),
      RawFeature(Measurement(JStr("O3"), JNum(0), JNull), Point(JList(<<JNum(0), JNum(0)>>))),
      RawFeature(Measurement(JStr("NO2"), JNum(7), JStr("India")), Paris),
      RawFeature(Measurement(JStr("CO2"), JNum(12), JStr("France")), Paris),
      RawFeature(Measurement(JStr("PM10"), JNum(-1), JStr("France")), Paris),
      RawFeature(Measurement(JStr("PM10"), JNull, JStr("France")), Paris),
      RawFeature(Measurement(JStr("PM10"), JStr("12"), JStr("France")), Paris),
      RawFeature(Measurement(JStr("SO2"), JNum(3), JStr("France")),
                 Point(JList(<<JNum(2), JNum(48), JNum(35)>>))),
      RawFeature(Measurement(JStr("SO2"), JNum(3), JStr("France")),
                 Point(JList(<<JNull, JNum(48)>>))),
      RawFeature(Measurement(JStr("SO2"), JNum(3), JStr("France")), Point(JList(<<>>))),
      RawFeature(Measurement(JStr("SO2"), JNum(3), JStr("France")), Point(JNum(48))),
      RawFeature(Measurement(JStr("SO2"), JNum(3), JStr("France")),
                 Point(JDict("lon" :> JNum(2) @@ "lat" :> JNum(48)))),
      RawFeature(Measurement(JStr("CO"), JNum(3), JStr("France")), JNull),
      RawFeature(Measurement(JStr("CO"), JNum(3), JStr("France")), JStr("POINT (2 48)")),
      RawFeature(JStr("PM2.5"), Paris),
      RawFeature(JDict("country_name_en" :> JStr("France")), Paris),
      JDict("type" :> JStr("Feature") @@ "geometry" :> Paris),
      JNull }

RECURSIVE SeqsOf(_, _)
SeqsOf(S, n) ==
    IF n = 0 THEN {<<>>}
    ELSE LET shorter == SeqsOf(S, n - 1)
         IN  shorter \cup {Append(s, x) : s \in {t \in shorter : Len(t) = n - 1}, x \in S}

RawFiles == SeqsOf(RawFeatures, MaxRaw)

\* python clean_data.py: the raw file is read, cleaned and saved
NettoyerGeojson ==
    /\ \E r \in {nettoyer_geojson(raw)} :
         /\ file' = IF r.saved THEN r.features ELSE file
         /\ ret' = [op |-> "nettoyer_geojson", args |-> <<>>, val |-> r]
    /\ UNCHANGED <<now, cache, memver, lru, selected_pollutants, inYear, inSet, reads,
                   fetch, nav, threads, written, raw>>

InitClean ==
    /\ raw \in RawFiles
    /\ file = <<>>
    /\ inYear = 2020
    /\ inSet = {}
    /\ now = 0
    /\ cache = <<>>
    /\ memver = <<>>
    /\ lru = <<>>
    /\ selected_pollutants = {}
    /\ ret = NoCall
    /\ reads = 0
    /\ fetch = <<>>
    /\ nav = <<>>
    /\ threads = <<>>
    /\ written = 0

NextClean == NettoyerGeojson

SpecClean == InitClean /\ [][NextClean]_vars

\* ------------------------------------------------ the six pollutant buttons
AllPollutants == {pollutant_map[b] : b \in DOMAIN pollutant_map}

\* the views get_filtered_data holds in the cache
Views == {k \in DOMAIN cache : k[1] = "get_filtered_data"}

ButtonsFile == TableOf({f \in Features : f.idx \in {4, 6, 7, 8}})

\* the dashboard at any selection earlier clicks have left, once the entries
\* of the cache have all expired
InitButtons ==
    /\ file = ButtonsFile
    /\ inYear = 2020
    /\ inSet = {}
    /\ selected_pollutants \in SUBSET AllPollutants
    /\ now = 0
    /\ cache = <<>>
    /\ memver = <<>>
    /\ lru = <<>>
    /\ ret = NoCall
    /\ reads = 0
    /\ Idle

\* a click on any of the six buttons, a move of the slider, or a run no
\* component triggered, one callback at a time, until MaxViews views are cached
NextButtons ==
    \E button_id \in DOMAIN pollutant_map \cup {"year-slider", ""}, selected_year \in Years :
        /\ button_id # "year-slider" => selected_year = inYear
        /\ Cardinality(Views) < MaxViews
        /\ UpdateMap(button_id, selected_year)

SpecButtons == InitButtons /\ [][NextButtons]_vars

\* ------------------------------------------------ update_map on the threaded server
\* Flask serves each callback request in a thread of its own: runs of update_map
\* overlap, and a thread can be preempted between any two bytecodes.  A run is
\* followed from the request to the membership test (l.565), to the removal or
\* the addition (l.566-569), to the rest of the callback (l.571-663).
Sessions == {1, 2}

\* the button pressed in the sessions
RacedButtons == {"btn-pm25"}

IdleThread == [pc |-> "idle", button_id |-> "", year |-> 2020, found |-> FALSE, raised |-> FALSE]

\* the set a run of update_map reads and writes: the module-level set, whatever
\* the session the request comes from
Selection_OfSession(s) == {p \in selected_pollutants : threads.by[p] = s}

Selection(s) == selected_pollutants

\* a request of session s reaches the server: ctx.triggered names a button whose
\* click is to be handled, the slider, or nothing
Begin(s, button_id, selected_year) ==
    /\ threads.run[s].pc = "idle"
    /\ threads' = [threads EXCEPT !.run[s] =
                      [pc |-> IF button_id \in DOMAIN pollutant_map THEN "test" ELSE "finish",
                       button_id |-> button_id, year |-> selected_year,
                       found |-> FALSE, raised |-> FALSE]]
    /\ UNCHANGED <<file, now, cache, memver, lru, selected_pollutants, inYear, inSet, ret,
                   reads, fetch, nav, written, raw>>

\* if pollutant in selected_pollutants
Test(s) ==
    /\ threads.run[s].pc = "test"
    /\ threads' = [threads EXCEPT
                      !.run[s].pc = "toggle",
                      !.run[s].found = pollutant_map[threads.run[s].button_id] \in Selection(s)]
    /\ UNCHANGED <<file, now, cache, memver, lru, selected_pollutants, inYear, inSet, ret,
                   reads, fetch, nav, written, raw>>

\* selected_pollutants.remove(pollutant), which raises KeyError when the
\* pollutant is no longer in the set and ends the run there, or
\* selected_pollutants.add(pollutant)
Toggle(s) ==
    /\ threads.run[s].pc = "toggle"
    /\ LET pollutant == pollutant_map[threads.run[s].button_id]
           KeyError == threads.run[s].found /\ pollutant \notin selected_pollutants
           after == IF threads.run[s].found THEN selected_pollutants \ {pollutant}
                    ELSE selected_pollutants \cup {pollutant}
       IN  /\ selected_pollutants' = after
           /\ threads' = [threads EXCEPT
                             !.run[s].pc = IF KeyError THEN "idle" ELSE "finish",
                             !.run[s].raised = KeyError,
                             !.toggles = IF pollutant \in @ THEN @ \ {pollutant}
                                         ELSE @ \cup {pollutant},
                             !.by[pollutant] = IF after # selected_pollutants THEN s ELSE @]
    /\ UNCHANGED <<file, now, cache, memver, lru, inYear, inSet, ret, reads, fetch, nav,
                   written, raw>>

\* the rest of update_map, from pollutants_tuple to the styles returned
Finish(s) ==
    /\ threads.run[s].pc = "finish"
    /\ UpdateMapFrom(Selection(s), threads.run[s].button_id, threads.run[s].year)
    /\ threads' = [threads EXCEPT !.run[s].pc = "idle", !.last = s]

\* the server as it starts: the set is empty, no request has come.  Besides the
\* runs, `toggles` keeps the pollutants toggled an odd number of times, `by`
\* the session whose run last changed the membership of a pollutant (0: none),
\* `last` the session whose run returned last
InitSessions ==
    /\ file = ButtonsFile
    /\ inYear = 2020
    /\ inSet = {}
    /\ now = 0
    /\ cache = <<>>
    /\ memver = <<>>
    /\ lru = <<>>
    /\ selected_pollutants = {}
    /\ ret = NoCall
    /\ reads = 0
    /\ threads = [run |-> [s \in Sessions |-> IdleThread], toggles |-> {},
                  by |-> [p \in AllPollutants |-> 0], last |-> 0]
    /\ fetch = <<>>
    /\ nav = <<>>
    /\ written = 0
    /\ raw = <<>>

NextSessions ==
    \E s \in Sessions :
        \/ \E button_id \in RacedButtons \cup {"year-slider", ""}, selected_year \in Years :
              /\ button_id # "year-slider" => selected_year = inYear
              /\ Begin(s, button_id, selected_year)
        \/ Test(s)
        \/ Toggle(s)
        \/ Finish(s)

SpecSessions == InitSessions /\ [][NextSessions]_vars

\* ------------------------------------------------ main.py: toggle_sections
\* the style of a section that the layout gives no style: it is displayed
NoStyle == [display |-> "block", given |-> FALSE]

Display(d) == [display |-> d, given |-> TRUE]

\* toggle_sections, given ctx.triggered as the ids of the components that
\* triggered the run: the styles of carte-section and graphiques-section
toggle_sections_BothShown(triggered, carte_clicks, graphiques_clicks) ==
    IF triggered # <<>>
    THEN IF Head(triggered) = "nav-graphiques"
         THEN <<Display("block"), Display("block")>>
         ELSE <<Display("block"), Display("none")>>
    ELSE <<Display("block"), Display("none")>>

toggle_sections(triggered, carte_clicks, graphiques_clicks) ==
    IF triggered # <<>>
    THEN IF Head(triggered) = "nav-graphiques"
         THEN <<Display("none"), Display("block")>>
         ELSE <<Display("block"), Display("none")>>
    ELSE <<Display("block"), Display("none")>>

\* app.layout: both navigation items at n_clicks=0, carte-section without a
\* style, graphiques-section hidden; `last` is the item clicked last
Layout ==
    [ clicks |-> [b \in {"nav-carte", "nav-graphiques"} |-> 0],
      carte_section |-> NoStyle,
      graphiques_section |-> Display("none"),
      last |-> "" ]

\* a click on a navigation item: its n_clicks goes up and the callback runs
\* with that item in ctx.triggered
NavClick(button_id) ==
    /\ nav.clicks[button_id] < MaxClicks
    /\ \E clicks \in {[nav.clicks EXCEPT ![button_id] = @ + 1]} :
       \E styles \in {toggle_sections(<<button_id>>, clicks["nav-carte"],
                                      clicks["nav-graphiques"])} :
         nav' = [ clicks |-> clicks, carte_section |-> styles[1],
                  graphiques_section |-> styles[2], last |-> button_id ]
    /\ UNCHANGED <<file, now, cache, memver, lru, selected_pollutants, inYear, inSet, ret,
                   reads, fetch, threads, written, raw>>

InitNav ==
    /\ nav = Layout
    /\ file = <<>>
    /\ inYear = 2020
    /\ inSet = {}
    /\ now = 0
    /\ cache = <<>>
    /\ memver = <<>>
    /\ lru = <<>>
    /\ selected_pollutants = {}
    /\ ret = NoCall
    /\ reads = 0
    /\ fetch = <<>>
    /\ threads = <<>>
    /\ written = 0
    /\ raw = <<>>

NextNav == NavClick("nav-carte") \/ NavClick("nav-graphiques")

SpecNav == InitNav /\ [][NextNav]_vars

\* ------------------------------------------------ the dashboard over time
\* the page is loaded or reloaded: update_map runs, no component having
\* triggered it; `served` keeps the time of the answer
PageLoad ==
    /\ UpdateMapFrom(selected_pollutants, "", inYear)
    /\ threads' = [served |-> now]

\* the clock is followed for one base timeout and two view timeouts
Horizon == LoadTimeout + 2 * FilteredTimeout

Elapse ==
    /\ now < Horizon
    /\ now' = now + TickStep
    /\ UNCHANGED <<file, cache, memver, lru, selected_pollutants, inYear, inSet, ret, reads,
                   fetch, nav, threads, written, raw>>

\* the data file is replaced (clean_data.py is run again on new raw data)
Rewrite ==
    /\ file' \in ClickFiles \ {file}
    /\ written' = now
    /\ UNCHANGED <<now, cache, memver, lru, selected_pollutants, inYear, inSet, ret, reads,
                   fetch, nav, threads, raw>>

InitStale ==
    /\ file \in ClickFiles
    /\ inYear = 2020
    /\ inSet = {}
    /\ now = 0
    /\ cache = <<>>
    /\ memver = <<>>
    /\ lru = <<>>
    /\ selected_pollutants = {}
    /\ ret = NoCall
    /\ reads = 0
    /\ fetch = <<>>
    /\ nav = <<>>
    /\ threads = [served |-> 0]
    /\ written = 0
    /\ raw = <<>>

NextStale == PageLoad \/ Elapse \/ Rewrite

SpecStale == InitStale /\ [][NextStale]_vars

\* ------------------------------------------------ properties
\* the value a memoized function holds in the cache for the arguments of the last call
Cached(fname) == cache[<<fname, ret.args>>].val

RefCodes == {Countries[i].alpha_3 : i \in DOMAIN Countries}

C2_ZeroFill ==
    ret.op = "create_map" =>
        LET fig == ret.val
            agg == Cached("calculate_country_pollution")
        IN  /\ \A c \in RefCodes :
                  LET merged == {fig.z[i] : i \in {j \in DOMAIN fig.z : fig.locations[j] = c}}
                      own    == {agg[i].avg_pollution :
                                    i \in {j \in DOMAIN agg : agg[j].country_iso3 = c}}
                  IN  merged = IF own = {} THEN {<<0, 1>>} ELSE own
            /\ \A i \in DOMAIN fig.z : ~IsNaN(fig.z[i])

\* a map where one reference country has measurements and another has none
C2_Witness ==
    /\ ret.op = "create_map"
    /\ \E i \in DOMAIN ret.val.z : ret.val.z[i] # <<0, 1>>
    /\ \E i \in DOMAIN ret.val.z :
          /\ ret.val.z[i] = <<0, 1>>
          /\ \A j \in DOMAIN Cached("calculate_country_pollution") :
                Cached("calculate_country_pollution")[j].country_iso3 # ret.val.locations[i]

\* does the row of the base dataset match year Y and filter tuple p
Matches(row, year, p) ==
    /\ row.measurements_lastupdated[1] = year
    /\ Len(p.t) > 0 => row.measurements_parameter \in Range(p.t)

\* C3: get_filtered_data(Y,P) returns exactly the rows of load_geojson_data()
\* whose year is Y and, when P is non-empty, whose pollutant is in P.
C3_FilterExact ==
    ret.op = "get_filtered_data" =>
        LET base == cache[<<"load_geojson_data", <<>>>>].val
        IN  /\ \A i \in DOMAIN base :
                  Matches(base[i], ret.args[1], ret.args[2]) <=> base[i] \in Range(ret.val)
            /\ Range(ret.val) \subseteq Range(base)
            /\ Cardinality(Range(ret.val)) = Len(ret.val)

\* a filtered view that keeps a row, drops one for its year and one for its pollutant
C3_Witness ==
    /\ ret.op = "get_filtered_data"
    /\ ret.val # <<>>
    /\ Truthy(ret.args[2])
    /\ \E i \in DOMAIN file : file[i].measurements_lastupdated[1] # ret.args[1]
    /\ \E i \in DOMAIN file :
          /\ file[i].measurements_lastupdated[1] = ret.args[1]
          /\ file[i].measurements_parameter \notin Range(ret.args[2].t)

IsFilteredKey(k) == k[1] = "get_filtered_data"

\* C4: get_filtered_data(Y,P) returns the same rows for every ordering of the
\* elements of P, and the same rows for () as for None.
C4_FilterPermutation ==
    \A k1, k2 \in DOMAIN cache :
        ( /\ IsFilteredKey(k1)
          /\ IsFilteredKey(k2)
          /\ k1[2][1] = k2[2][1]
          /\ Range(k1[2][2].t) = Range(k2[2][2].t) )
        => cache[k1].val = cache[k2].val

\* two orderings of a two-pollutant filter have both been asked, with rows kept and rows dropped
C4_Witness ==
    \E k1, k2 \in DOMAIN cache :
        /\ IsFilteredKey(k1)
        /\ IsFilteredKey(k2)
        /\ k1 # k2
        /\ Len(k1[2][2].t) = 2
        /\ cache[k1].val # <<>>
        /\ Len(cache[k1].val) < Len(file)

\* the country codes of a table
CountryCodes(data) == {data[i].country : i \in DOMAIN data} \ {None}

\* C5: calculate_country_pollution(Y,P) has one row for each distinct country
\* code of get_filtered_data(Y,P) that iso2_to_iso3 resolves and none for a code
\* it does not resolve; its row count is the number of country groups minus
\* the number of unresolvable groups.
C5_DropConsistency ==
    ret.op = "calculate_country_pollution" =>
        LET codes      == CountryCodes(Cached("get_filtered_data"))
            unresolved == {c \in codes : iso2_to_iso3_body(c) = None}
        IN  /\ {ret.val[i].country : i \in DOMAIN ret.val} = codes \ unresolved
            /\ Len(ret.val) = Cardinality(codes) - Cardinality(unresolved)
            /\ \A i \in DOMAIN ret.val : ret.val[i].country_iso3 # None

\* an aggregate computed over a view holding 'ZZ' next to a resolvable code
C5_Witness ==
    /\ ret.op = "calculate_country_pollution"
    /\ ZZ \in CountryCodes(Cached("get_filtered_data"))
    /\ ret.val # <<>>

Scenario2020 == TableOf({f \in Features : f.idx \in 1..4})

\* C6: calculate_country_pollution(Y,P) gives each country the arithmetic mean
\* of measurements_value over that country's rows of get_filtered_data(Y,P),
\* with its resolved 3-letter code; FR 10, 20, 30 and US 5 in 2020 give
\* FR -> 20.0 / FRA and US -> 5.0 / USA.
C6_CountryMean ==
    ret.op = "calculate_country_pollution" =>
        LET data == Cached("get_filtered_data")
        IN  /\ \A i \in DOMAIN ret.val :
                  LET row  == ret.val[i]
                      own  == SelectSeq(data, LAMBDA r : r.country = row.country)
                  IN  /\ row.avg_pollution[2] > 0
                      /\ row.avg_pollution[1] * Len(own) = SumValues(own) * row.avg_pollution[2]
                      /\ \E j \in DOMAIN Countries :
                            /\ Lower(Countries[j].alpha_2) = Lower(row.country)
                            /\ Countries[j].alpha_3 = row.country_iso3
            /\ (file = Scenario2020 /\ ret.args[1] = 2020 /\ "PM2.5" \in inSet) =>
                  ret.val = << [country |-> FR, avg_pollution |-> <<20, 1>>, country_iso3 |-> FRA],
                               [country |-> US, avg_pollution |-> <<5, 1>>, country_iso3 |-> USA] >>

\* the aggregate of the FR 10, 20, 30 / US 5 data file under the filter {PM2.5}
C6_Witness ==
    /\ ret.op = "calculate_country_pollution"
    /\ file = Scenario2020
    /\ ret.args[1] = 2020
    /\ inSet = {"PM2.5"}
    /\ Len(ret.val) = 2

IsResolverCall(r) == r.op = "iso2_to_iso3"

\* C7 as stated: iso2_to_iso3 returns the 3-letter code for a code of the
\* reference table and None for every other string.
C7_Resolver_Original ==
    IsResolverCall(ret) =>
        LET entries == {j \in DOMAIN Countries : Countries[j].alpha_2 = ret.args[1]}
        IN  IF entries = {} THEN ret.val = None
            ELSE \A j \in entries : ret.val = Countries[j].alpha_3

\* C7 amended: iso2_to_iso3 returns the 3-letter code of the reference entry
\* whose alpha-2 code equals the string up to letter case and None for every
\* other string, and the same result on every call with the same string,
\* whatever its cache holds.
C7_Resolver ==
    /\ [](IsResolverCall(ret) =>
            LET entries == {j \in DOMAIN Countries :
                               Lower(Countries[j].alpha_2) = Lower(ret.args[1])}
            IN  IF entries = {} THEN ret.val = None
                ELSE \A j \in entries : ret.val = Countries[j].alpha_3)
    /\ [](\A i \in DOMAIN lru :
            \A j \in DOMAIN Countries :
                Lower(Countries[j].alpha_2) = Lower(lru[i].key) => lru[i].val = Countries[j].alpha_3)
    /\ [][(IsResolverCall(ret) /\ IsResolverCall(ret') /\ ret.args = ret'.args)
            => ret.val = ret'.val]_vars

\* 'fr' resolved to FRA by a call answered from a cache that holds other strings too
C7_Witness ==
    /\ IsResolverCall(ret)
    /\ ret.args[1] = <<"f","r">>
    /\ ret.val = FRA
    /\ Len(lru) >= 3
    /\ lru[Len(lru)].key = <<"f","r">>
    /\ \E i \in DOMAIN lru : lru[i].val = None

IsYearsLost(r) == r.op = "calculate_years_lost"

\* C8: calculate_years_lost(c) is 0 for c <= 5, (c - 5) * 0.098 rounded to two
\* decimals for c > 5, and never decreases when c grows.
C8_YearsLost ==
    /\ [](IsYearsLost(ret) =>
            LET c == ret.args[1]
                d == 100 * ret.val - 98 * (c - SeuilDefaut)
            IN  /\ c <= SeuilDefaut => ret.val = 0
                /\ c > SeuilDefaut => (d <= 50 /\ -d <= 50))
    /\ [][(IsYearsLost(ret) /\ IsYearsLost(ret') /\ ret.args[1] < ret'.args[1])
            => ret.val <= ret'.val]_vars

\* 12.5 ug/m3 gives 0.73 years
C8_Witness ==
    /\ IsYearsLost(ret)
    /\ ret.args[1] = 125
    /\ ret.val = 73

\* C9 as stated: calculate_years_lost(15) returns 1.0.
C9_Fifteen_Original ==
    (IsYearsLost(ret) /\ ret.args[1] = 150) => ret.val = 100

\* C9 amended: calculate_years_lost(15) returns 0.98, which is
\* round((15 - 5) * 0.098, 2).
C9_Fifteen ==
    (IsYearsLost(ret) /\ ret.args[1] = 150) => ret.val = 98

\* calculate_years_lost(15) has been called
C9_Witness ==
    /\ IsYearsLost(ret)
    /\ ret.args[1] = 150

IsGetRegion(r) == r.op = "get_region"

\* C10: get_region(code) returns the label of REGION_MAPPING for a key of it
\* and 'Autre' for every other string, never a null, and the same label on
\* every call with the same code.
C10_RegionTotal ==
    /\ [](IsGetRegion(ret) =>
            LET entries == {i \in DOMAIN REGION_PAIRS : REGION_PAIRS[i][1] = ret.args[1]}
            IN  /\ ret.val # Missing
                /\ IF entries = {} THEN ret.val = "Autre"
                   ELSE \A i \in entries : ret.val = REGION_PAIRS[i][2])
    /\ [][(IsGetRegion(ret) /\ IsGetRegion(ret') /\ ret.args = ret'.args)
            => ret.val = ret'.val]_vars

\* a code absent from the table was given the catch-all label
C10_Witness ==
    /\ IsGetRegion(ret)
    /\ ret.args[1] = <<"f","r">>
    /\ ret.val = "Autre"

\* the macro-regions of REGION_MAPPING
MacroRegions == {REGION_MAPPING[c] : c \in DOMAIN REGION_MAPPING}

\* the PM2.5 records of the data file in a year and a region
PM25Records(year, region) ==
    SelectSeq(file, LAMBDA r : /\ r.measurements_parameter = "PM2.5"
                               /\ r.measurements_lastupdated[1] = year
                               /\ get_region(r.country) = region)

\* C11: the regional table of create_life_expectancy_graph(year) has exactly one
\* row for each macro-region with at least one PM2.5 record of that year, never
\* a row 'Autre', and each row counts and averages the PM2.5 records of its
\* region only: records of other pollutants change no row.
C11_RegionalTable ==
    ret.op = "update_life_expectancy" =>
        LET bars == ret.val.bars
            year == ret.args[1]
        IN  /\ \A i \in DOMAIN bars : bars[i].region # "Autre"
            /\ \A i, j \in DOMAIN bars : i # j => bars[i].region # bars[j].region
            /\ {bars[i].region : i \in DOMAIN bars}
                  = {g \in MacroRegions : PM25Records(year, g) # <<>>}
            /\ \A i \in DOMAIN bars :
                  LET records == PM25Records(year, bars[i].region)
                  IN  /\ bars[i].nb_measurements = Len(records)
                      /\ bars[i].avg_pm25 = Frac(SumValues(records), Len(records))

\* the graph of a year with PM2.5 records in two macro-regions and outside
\* every macro-region, and a record of another pollutant in a region shown
C11_Witness ==
    /\ ret.op = "update_life_expectancy"
    /\ Len(ret.val.bars) >= 2
    /\ \E i \in DOMAIN file :
          /\ file[i].measurements_parameter = "PM2.5"
          /\ file[i].measurements_lastupdated[1] = ret.args[1]
          /\ get_region(file[i].country) = "Autre"
    /\ \E i \in DOMAIN file, j \in DOMAIN ret.val.bars :
          /\ file[i].measurements_parameter # "PM2.5"
          /\ file[i].measurements_lastupdated[1] = ret.args[1]
          /\ get_region(file[i].country) = ret.val.bars[j].region

\* the (country, country_name_en) pairs of a table
NamePairs(data) == {<<data[i].country, data[i].country_name_en>> : i \in DOMAIN data}

\* C12: the ranking of update_map has at most 5 rows, at most one row per
\* (country, country_name_en) group of the filtered data, and its rows are in
\* descending order of their mean measurements_value.
C12_Ranking ==
    ret.op = "update_map" =>
        LET top == ret.val.top_countries
        IN  /\ Len(top) <= 5
            /\ Len(ret.val.ranking_table) = Len(top)
            /\ NamePairs(top) \subseteq NamePairs(ret.val.data_filtered)
            /\ \A i, j \in DOMAIN top :
                  i # j => <<top[i].country, top[i].country_name_en>>
                              # <<top[j].country, top[j].country_name_en>>
            /\ \A i, j \in DOMAIN top :
                  i < j => FracLeq(top[j].measurements_value, top[i].measurements_value)

\* a ranking of five rows cut from more than five groups, two of them of equal mean
C12_Witness ==
    /\ ret.op = "update_map"
    /\ Len(ret.val.top_countries) = 5
    /\ Cardinality({k \in NamePairs(ret.val.data_filtered) : k[1] # None /\ k[2] # Missing}) > 5
    /\ \E i, j \in DOMAIN ret.val.top_countries :
          /\ i # j
          /\ ret.val.top_countries[i].measurements_value
                = ret.val.top_countries[j].measurements_value

\* C13: zmin and zmax of create_map are the minimum and the maximum of
\* avg_pollution over the rows of calculate_country_pollution, the table before
\* the merge; the zeros the merge fills in never lower zmin. FR = 20 and
\* US = 5 give zmin = 5 and zmax = 20.
C13_ColourBounds ==
    (ret.op = "create_map" /\ Cached("calculate_country_pollution") # <<>>) =>
        LET avg == {r.avg_pollution : r \in Range(Cached("calculate_country_pollution"))}
        IN  /\ ret.val.zmin \in avg
            /\ ret.val.zmax \in avg
            /\ \A v \in avg : FracLeq(ret.val.zmin, v) /\ FracLeq(v, ret.val.zmax)
            /\ (file = Scenario2020 /\ ret.args[1] = 2020)
                  => (ret.val.zmin = <<5, 1>> /\ ret.val.zmax = <<20, 1>>)

\* the map of the FR 10, 20, 30 / US 5 data file: bounds 5 and 20 while the
\* countries without data are drawn at 0
C13_Witness ==
    /\ ret.op = "create_map"
    /\ file = Scenario2020
    /\ ret.args[1] = 2020
    /\ ret.val.zmin = <<5, 1>>
    /\ ret.val.zmax = <<20, 1>>
    /\ \E i \in DOMAIN ret.val.z : ret.val.z[i] = <<0, 1>>

\* C14: create_map always hands the choropleth defined numeric zmin and zmax,
\* also when the aggregate of calculate_country_pollution is empty; the bounds
\* are never NaN.
C14_DefinedBounds ==
    ret.op = "create_map" => (~IsNaN(ret.val.zmin) /\ ~IsNaN(ret.val.zmax))

\* does no record of the data file match the year and the filter tuple
NoMatch(year, p) == \A i \in DOMAIN file : ~Matches(file[i], year, p)

SelectionKeys == {k \in DOMAIN cache : k[1] \in {"get_filtered_data", "create_map"}}

\* C16: whatever the clicks that led to it, a selected set reaches
\* get_filtered_data and create_map as one and the same pollutants_tuple: None
\* for the empty set, otherwise the tuple of its names in ascending order. No
\* two keys stored by either function for a year list the same set differently.
C16_SameTuple ==
    /\ ret.op = "update_map" =>
          LET p == ret.val.filtered_args[2]
          IN  /\ ret.val.map_args = ret.val.filtered_args
              /\ p.none <=> selected_pollutants = {}
              /\ Range(p.t) = selected_pollutants
              /\ Len(p.t) = Cardinality(selected_pollutants)
              /\ \A i, j \in DOMAIN p.t : i < j => NameLess(p.t[i], p.t[j])
    /\ \A k1, k2 \in SelectionKeys :
          (/\ k1[1] = k2[1]
           /\ k1[2][1] = k2[2][1]
           /\ Range(k1[2][2].t) = Range(k2[2][2].t)) => k1 = k2

\* NO2 clicked after PM2.5: the set {NO2, PM2.5} reached by way of {PM2.5}
C16_Witness ==
    /\ ret.op = "update_map"
    /\ ret.args[2] = "btn-no2"
    /\ selected_pollutants = {"NO2", "PM2.5"}
    /\ <<"get_filtered_data", <<ret.args[1], PTuple(<<"PM2.5">>)>>>> \in DOMAIN cache
    /\ ret.val.filtered_args[2] = PTuple(<<"NO2", "PM2.5">>)

LoadKey == <<"load_geojson_data", <<>>>>

\* the step is a call of one of the memoized functions of the pipeline
IsPipelineCall ==
    /\ now' = now
    /\ file' = file
    /\ ret'.op \in {"get_filtered_data", "calculate_country_pollution", "create_map"}

C18_OneReadPerWindow == now < LoadTimeout => reads <= 1

\* C19: a memoized call whose entry is younger than the timeout of its function
\* returns the stored value and leaves the entry as it is, even when the data
\* file has been written since; a call whose entry is absent or has expired
\* computes the value again and stores it for the full timeout.
C19_TimeOnly ==
    [][IsPipelineCall =>
          LET k == <<ret'.op, ret'.args>>
          IN  IF k \in DOMAIN cache /\ cache[k].expires > now
              THEN ret'.val = cache[k].val /\ cache'[k] = cache[k]
              ELSE cache'[k] = [val |-> ret'.val, expires |-> now + FilteredTimeout]]_vars

\* the entry can still be looked up: neither it nor the version of its function
\* has expired
Reachable(k) ==
    /\ cache[k].expires > now
    /\ k[1] \in DOMAIN memver
    /\ memver[k[1]].expires > now

C21_Pagination ==
    (fetch.stopped.fn # "none" /\ fetch.stopped.why # "max_pages")
        => \/ fetch.stopped.results < PageLimit
           \/ fetch.stopped.fetched >= fetch.stopped.found

\* a retry is in progress after this step
Retrying == fetch'.call.depth > 1

WellFormed(feature) ==
    /\ feature.t = "dict"
    /\ {"properties", "geometry"} \subseteq DOMAIN feature.v
    /\ feature.v["properties"].t = "dict"
    /\ feature.v["geometry"].t = "dict"
    /\ {"measurements_parameter", "measurements_value"} \subseteq DOMAIN feature.v["properties"].v
    /\ "coordinates" \in DOMAIN feature.v["geometry"].v
    /\ LET polluant == feature.v["properties"].v["measurements_parameter"]
           value == feature.v["properties"].v["measurements_value"]
           coords == feature.v["geometry"].v["coordinates"]
       IN  /\ polluant.t = "str" /\ polluant.v \in {"PM2.5", "PM10", "CO", "NO2", "SO2", "O3"}
           /\ value.t = "num" /\ value.v >= 0
           /\ coords.t = "list" /\ Len(coords.v) = 2
           /\ \A i \in 1..2 : coords.v[i].t # "null"

\* out is made of features of inp in the order of inp
RECURSIVE IsSubSeq(_, _)
IsSubSeq(out, inp) ==
    IF out = <<>> THEN TRUE
    ELSE IF inp = <<>> THEN FALSE
    ELSE IF Head(out) = Head(inp) THEN IsSubSeq(Tail(out), Tail(inp))
    ELSE IsSubSeq(out, Tail(inp))

Cleaned == ret.op = "nettoyer_geojson"

Highlighted(style, pollutant) ==
    /\ style.backgroundColor = get_color_by_pollutant(pollutant)
    /\ style.color = "white"
    /\ style.fontWeight = "bold"

\* C24: a run of update_map triggered by a pollutant button flips the membership
\* of that button's pollutant in selected_pollutants and leaves the membership of
\* the other five as it was; a run triggered by the year slider leaves the set as
\* it was; the set holds none but the six pollutants, and each button style
\* returned is the highlighted one exactly when its pollutant is in the set
C24_Toggle ==
    /\ [](selected_pollutants \subseteq {"PM2.5", "PM10", "CO", "NO2", "SO2", "O3"})
    /\ [](ret.op = "update_map" =>
            /\ Len(ret.val.styles) = 6
            /\ \A i \in 1..6 :
                  Highlighted(ret.val.styles[i], StyleOrder[i])
                      <=> StyleOrder[i] \in selected_pollutants)
    /\ [][ret'.op = "update_map" =>
            /\ ret'.args[2] \in DOMAIN pollutant_map =>
                  \A p \in AllPollutants :
                      (p \in selected_pollutants') <=>
                          ((p \in selected_pollutants) # (p = pollutant_map[ret'.args[2]]))
            /\ ret'.args[2] = "year-slider" => selected_pollutants' = selected_pollutants]_vars

\* CO clicked while CO and O3 were selected: CO has left the set, O3 is still in
C24_Witness ==
    /\ ret.op = "update_map"
    /\ ret.args[2] = "btn-co"
    /\ <<"get_filtered_data", <<2020, PTuple(<<"CO", "O3">>)>>>> \in DOMAIN cache
    /\ selected_pollutants = {"O3"}
    /\ ~Highlighted(ret.val.styles[3], "CO")
    /\ Highlighted(ret.val.styles[6], "O3")

\* ------------------------------------------------ sessions
\* the run of session s returns in this step
Returning(s) == threads.run[s].pc = "finish" /\ threads'.run[s].pc = "idle"

C27_SerialToggles ==
    /\ \A s \in Sessions : ~threads.run[s].raised
    /\ (\A s \in Sessions : threads.run[s].pc # "toggle")
           => selected_pollutants = threads.toggles

\* ------------------------------------------------ ranking of nameless countries
\* the countries of the filtered view that have records without an English name
Nameless(data) == {k[1] : k \in {p \in NamePairs(data) : p[1] # None /\ p[2] = Missing}}

\* C26: a country whose records of the filtered view have no country_name_en
\* still takes part in the Top-5 ranking, shown under its country code (so it is
\* in the table whenever the view has no more than five groups), and a group
\* without a unit is shown with the unit 'µg/m³'
C26_NamelessRanked ==
    ret.op = "update_map" =>
        /\ \A c \in Nameless(ret.val.data_filtered) :
              Cardinality({k \in NamePairs(ret.val.data_filtered) : k[1] # None}) <= TopN
                  => \E i \in DOMAIN ret.val.ranking_table :
                        ret.val.ranking_table[i].country_name = c
        /\ \A i \in DOMAIN ret.val.top_countries :
              ret.val.top_countries[i].measurements_unit = Missing
                  => ret.val.ranking_table[i].unit = "µg/m³"

\* ------------------------------------------------ staleness
\* the stores of a server that has just started
FreshStores == [cache |-> <<>>, memver |-> <<>>, lru |-> <<>>, reads |-> 0]

\* what get_filtered_data and create_map return when nothing is cached and the
\* file is read now
ViewOfFile == get_filtered_data(FreshStores, inYear, PNone).val

FigOfFile == create_map(FreshStores, inYear, PNone).val

\* update_map has answered when the data file had held its present content for
\* d seconds or more
Settled(d) == ret.op = "update_map" /\ threads.served - written >= d

\* the view and the figure of one answer of update_map come from the same
\* content of the file (of the two contents the file takes, both from the present
\* one or both from the other)
SameSnapshot ==
    ret.op = "update_map" =>
        (ret.val.data_filtered = ViewOfFile <=> ret.val.fig = FigOfFile)

C29_AllCounted ==
    ret.op = "update_years_lost_histogram" =>
        SumOf([i \in DOMAIN ret.val.bars |-> ret.val.bars[i].count])
            = Len(PM25Only(OfYear(file, ret.args[1])))

\* ------------------------------------------------ navigation
\* C30: after any sequence of navigation clicks exactly one of carte-section and
\* graphiques-section is displayed: graphiques-section exactly when the last
\* click was on nav-graphiques, carte-section before any click and otherwise
C30_OneSection ==
    /\ (nav.carte_section.display = "none") # (nav.graphiques_section.display = "none")
    /\ nav.graphiques_section.display # "none" <=> nav.last = "nav-graphiques"
    /\ nav.last = "" => nav.carte_section = NoStyle

\* back on the graphs after a visit to the map
C30_Witness ==
    /\ nav.clicks["nav-carte"] >= 1
    /\ nav.clicks["nav-graphiques"] >= 2
    /\ nav.last = "nav-graphiques"
    /\ nav.carte_section = Display("none")
    /\ nav.graphiques_section = Display("block")

====
